---- MODULE Spec2Model ----
(***************************************************************************)
(* The sketch-animation canvas of APLIKASI-SKETSA: the WhiteboardCanvas    *)
(* component the application mounts (edge paths per item, the path         *)
(* organizer, the debounced processing effect and the per-frame draw),     *)
(* with the application state that feeds it.                               *)
(*                                                                         *)
(* Numbers.  Point coordinates are the source's normalised floats kept as  *)
(* exact integers: a coordinate value v stands for v / (SM * W) (x) or     *)
(* v / (SM * H) (y), where W x H is the analysis raster and SM the common  *)
(* denominator of two smoothing passes.  Progress values are integers in   *)
(* units of 1 / PD.  Comparisons are cross-multiplied, never rounded.      *)
(***************************************************************************)
EXTENDS Integers, Sequences, FiniteSets, TLC

VARIABLES
    timelineImages,      \* App state: the frames, each with its layers, transition and camera
    currentImageIndex,   \* App state: index of the current frame (0-based, as in the source)
    layers,              \* App state currentLayers, the component's prop layers
    textElements,        \* App state, the component's prop textElements
    camera,              \* App state, the component's prop camera
    progress,            \* App state, the component's prop progress, in units of 1/PD
    settings,            \* App state, the component's prop settings
    processedItems,      \* component state
    isProcessing,        \* component state
    prevCompositeCanvas, \* component state: the previous frame's composite, or none
    staticBackground,    \* component state: the cached paper raster, or none
    handImage,           \* component state: the hand image once it has loaded
    timeoutId,           \* the pending debounce timer: the scope its callback closed over
    running,             \* the processItems call between its first and its last setState
    pendingDraw,         \* the draw effect is scheduled and has not run yet
    canvas,              \* what the last draw call put on the canvas
    drawnWith,           \* the scope and progress the last draw call was given
    currentHandPosRef,   \* App ref written through onHandMove
    image,               \* organizer harness: the runs of the raster under analysis
    traced,              \* organizer harness: the pixel walks the tracer kept
    organized,           \* organizer harness: the organizer's result
    gray,                \* extractor harness: the gray raster under edge extraction
    extracted,           \* extractor harness: the edge masks extracted from it
    isPlaying,           \* App state
    speed,               \* App state
    lastTimeRef,         \* App ref: whether the last frame's timestamp is known (0 when not)
    holdTime,            \* wall-clock time played since progress reached MAX_PROGRESS
    history              \* App state: the snapshots of the history panel, newest first

vars == <<timelineImages, currentImageIndex, layers, textElements, camera, progress,
          settings, processedItems, isProcessing, prevCompositeCanvas,
          staticBackground, handImage, timeoutId, running, pendingDraw, canvas,
          drawnWith, currentHandPosRef, image, traced, organized, gray, extracted,
          isPlaying, speed, lastTimeRef, holdTime, history>>

-----------------------------------------------------------------------------
(* Constants of the program *)

CANVAS_WIDTH == 1920
CANVAS_HEIGHT == 1080

\* The analysis raster: the canvas at ANALYSIS_SCALE = 0.5, on a grid coarsened
\* a further 12 times so that every product below stays inside 32 bits.
W == (CANVAS_WIDTH \div 2) \div 12
H == (CANVAS_HEIGHT \div 2) \div 12

\* smoothPath divides by the window's population, 3, 4 or 5 for a path of more
\* than five points: one pass is exact over this denominator, two passes over SM.
SmoothDen == 3 * 4 * 5
SM == SmoothDen * SmoothDen

\* CLUSTER_THRESHOLD = 0.05 = 1 / 20
CLUSTER_THRESHOLD_INV == 20

-----------------------------------------------------------------------------
(* Bounds of the model *)

MaxLayers == 2
MaxRuns == 3
MaxExtractions == 2
MaxFrames == 2
MaxSnapshots == 1
\* Playback is started while the hold measured so far is at most MaxHold seconds.
MaxHold == 2

-----------------------------------------------------------------------------
(* Helpers *)

Min(a, b) == IF a < b THEN a ELSE b
Max(a, b) == IF a > b THEN a ELSE b

RECURSIVE SumSeq(_)
SumSeq(s) == IF s = <<>> THEN 0 ELSE Head(s) + SumSeq(Tail(s))

Pt(px, py) == [x |-> px, y |-> py]

-----------------------------------------------------------------------------
(* Edge extractor: threshold of the gradient magnitude field *)

\* A threshold that rises with the sensitivity: 20 + s * 100.
thresholdRising(edgeSensitivity) == 20 + edgeSensitivity

\* edgeSensitivity is kept in hundredths (0..100): threshold = 120 - s * 100.
threshold(edgeSensitivity) == 120 - edgeSensitivity

InInterior(p) == p.x >= 1 /\ p.x < W - 1 /\ p.y >= 1 /\ p.y < H - 1

\* mag: the gradient magnitudes of the raster, a function on the pixels where
\* the magnitude is not zero.  A pixel is an edge when it is interior and its
\* magnitude is not below the threshold.
edgeMask(mag, edgeSensitivity) ==
    {p \in DOMAIN mag : InInterior(p) /\ ~(mag[p] < threshold(edgeSensitivity))}

-----------------------------------------------------------------------------
(* Path tracer *)

neighbors == << [dx |-> 1, dy |-> 0], [dx |-> 1, dy |-> 1], [dx |-> 0, dy |-> 1],
                [dx |-> -1, dy |-> 1], [dx |-> -1, dy |-> 0], [dx |-> -1, dy |-> -1],
                [dx |-> 0, dy |-> -1], [dx |-> 1, dy |-> -1] >>

Step(cur, k) == Pt(cur.x + neighbors[k].dx, cur.y + neighbors[k].dy)

Open(edges, visited, n) ==
    /\ n.x > 0 /\ n.x < W - 1 /\ n.y > 0 /\ n.y < H - 1
    /\ n \in edges /\ n \notin visited

\* The first neighbour, in the fixed priority order, that is an unvisited edge
\* pixel; 0 when there is none.
NextNeighbor(edges, visited, cur) ==
    LET ks == {k \in 1..8 : Open(edges, visited, Step(cur, k))}
    IN  IF ks = {} THEN 0 ELSE CHOOSE k \in ks : \A j \in ks : k <= j

\* The while (tracing) loop: the pixels walked from cur, and the visited set.
RECURSIVE tracePath(_, _, _, _)
tracePath(edges, visited, cur, acc) ==
    LET v2 == visited \cup {cur}
        a2 == Append(acc, cur)
        k  == NextNeighbor(edges, v2, cur)
    IN  IF k = 0 THEN [path |-> a2, visited |-> v2]
        ELSE tracePath(edges, v2, Step(cur, k), a2)

\* One pass of the 5-point moving average.  Coordinates come out multiplied by
\* SmoothDen (sum / count = sum * (SmoothDen / count) / SmoothDen).
smoothPath(points) ==
    IF Len(points) < 3
    THEN [i \in 1..Len(points) |-> Pt(points[i].x * SmoothDen, points[i].y * SmoothDen)]
    ELSE [i \in 1..Len(points) |->
            LET lo == Max(1, i - 2)
                hi == Min(Len(points), i + 2)
                count == hi - lo + 1
                sumX == SumSeq([j \in 1..count |-> points[lo + j - 1].x])
                sumY == SumSeq([j \in 1..count |-> points[lo + j - 1].y])
            IN  Pt((sumX * SmoothDen) \div count, (sumY * SmoothDen) \div count)]

RowMajorFirst(S) ==
    CHOOSE p \in S : \A q \in S : p.y < q.y \/ (p.y = q.y /\ p.x <= q.x)

\* The row-major scan: each unvisited edge pixel starts a path; a path of more
\* than 5 points is kept.  The result lists the kept pixel walks in scan order.
RECURSIVE scan(_, _, _)
scan(edges, visited, walks) ==
    IF edges \ visited = {} THEN walks
    ELSE LET start == RowMajorFirst(edges \ visited)
             r == tracePath(edges, visited, start, <<>>)
         IN  scan(edges, r.visited,
                  IF Len(r.path) > 5 THEN Append(walks, r.path) ELSE walks)

traceWalks(mag, edgeSensitivity) == scan(edgeMask(mag, edgeSensitivity), {}, <<>>)

\* paths.push({ points: smoothPath(smoothPath(currentPath)), strength: 1.0 }).
\* oid is the identity of the pushed object (its rank among the pushed paths).
generatePaths(mag, edgeSensitivity) ==
    LET walks == traceWalks(mag, edgeSensitivity)
    IN  [i \in 1..Len(walks) |->
            [points |-> smoothPath(smoothPath(walks[i])), strength |-> 1, oid |-> i]]

-----------------------------------------------------------------------------
(* Exact comparison of numbers too large for 32 bits *)

DigitBase == 64 * 64

\* v * v for 0 <= v < DigitBase * DigitBase, as three unnormalised digits.
SquareDigits(v) ==
    LET hi == v \div DigitBase
        lo == v % DigitBase
    IN  <<hi * hi, 2 * hi * lo, lo * lo>>

Abs(v) == IF v < 0 THEN -v ELSE v

\* a * a + b * b as three normalised digits, most significant first.
SumSquares(a, b) ==
    LET sa == SquareDigits(Abs(a))
        sb == SquareDigits(Abs(b))
        d0 == sa[3] + sb[3]
        d1 == sa[2] + sb[2] + (d0 \div DigitBase)
        d2 == sa[1] + sb[1] + (d1 \div DigitBase)
    IN  <<d2, d1 % DigitBase, d0 % DigitBase>>

DigitsLess(p, q) ==
    \/ p[1] < q[1]
    \/ p[1] = q[1] /\ p[2] < q[2]
    \/ p[1] = q[1] /\ p[2] = q[2] /\ p[3] < q[3]

\* a * m < b * n for 0 <= a, b and small positive m, n.
ProductLess(a, m, b, n) ==
    LET Z == DigitBase * 8
        pa == <<0, (a \div Z) * m + (((a % Z) * m) \div Z), ((a % Z) * m) % Z>>
        pb == <<0, (b \div Z) * n + (((b % Z) * n) \div Z), ((b % Z) * n) % Z>>
    IN  DigitsLess(pa, pb)

-----------------------------------------------------------------------------
(* Path organizer *)

\* Array.prototype.sort with a comparator: a stable sort.
StableSort(seq, Less(_, _)) ==
    LET n == Len(seq)
        pos(i) == 1 + Cardinality({j \in 1..n :
                        Less(seq[j], seq[i]) \/ (~Less(seq[i], seq[j]) /\ j < i)})
    IN  [k \in 1..n |-> seq[CHOOSE i \in 1..n : pos(i) = k]]

\* (a, b) => (a.points[0].y + a.points[0].x * 0.05) - (b.points[0].y + b.points[0].x * 0.05)
\* on normalised coordinates: y / (SM*H) + x / (20*SM*W), times 20*SM*W*H.
topKey(p) == 20 * W * p.points[1].y + H * p.points[1].x

sortTopToBottom(paths) == StableSort(paths, LAMBDA a, b : topKey(a) < topKey(b))

SetMin(S) == CHOOSE m \in S : \A v \in S : m <= v
SetMax(S) == CHOOSE m \in S : \A v \in S : m >= v

RECURSIVE Ascending(_)
Ascending(S) == IF S = {} THEN <<>> ELSE <<SetMin(S)>> \o Ascending(S \ {SetMin(S)})

\* getBounds, with minX = minY = 1 and maxX = maxY = 0 to start from; cx2 and
\* cy2 are twice the box centre.
getBounds(p) ==
    LET xs == {p.points[i].x : i \in 1..Len(p.points)}
        ys == {p.points[i].y : i \in 1..Len(p.points)}
        minX == SetMin(xs \cup {SM * W})
        minY == SetMin(ys \cup {SM * H})
        maxX == SetMax(xs \cup {0})
        maxY == SetMax(ys \cup {0})
    IN  [cx2 |-> minX + maxX, cy2 |-> minY + maxY,
         minX |-> minX, minY |-> minY, maxX |-> maxX, maxY |-> maxY]

\* The padded-box test of the clustering loop, for current and o.
Near(current, o) ==
    ~ \/ CLUSTER_THRESHOLD_INV * current.maxX + SM * W < CLUSTER_THRESHOLD_INV * o.minX
      \/ CLUSTER_THRESHOLD_INV * current.minX - SM * W > CLUSTER_THRESHOLD_INV * o.maxX
      \/ CLUSTER_THRESHOLD_INV * current.maxY + SM * H < CLUSTER_THRESHOLD_INV * o.minY
      \/ CLUSTER_THRESHOLD_INV * current.minY - SM * H > CLUSTER_THRESHOLD_INV * o.maxY

\* while (queue.length > 0): the cluster grown from the queue, as indices of meta.
RECURSIVE growCluster(_, _, _, _)
growCluster(meta, visited, cluster, queue) ==
    IF queue = <<>> THEN [cluster |-> cluster, visited |-> visited]
    ELSE LET current == meta[Head(queue)]
             found == Ascending({j \in 1..Len(meta) :
                                   j \notin visited /\ Near(current, meta[j])})
         IN  growCluster(meta, visited \cup {found[k] : k \in 1..Len(found)},
                         cluster \o found, Tail(queue) \o found)

\* for (let i = 0; i < meta.length; i++): the clusters in discovery order.
RECURSIVE findClusters(_, _, _, _)
findClusters(meta, i, visited, clusters) ==
    IF i > Len(meta) THEN clusters
    ELSE IF i \in visited THEN findClusters(meta, i + 1, visited, clusters)
    ELSE LET g == growCluster(meta, visited \cup {i}, <<i>>, <<i>>)
         IN  findClusters(meta, i + 1, g.visited, Append(clusters, g.cluster))

\* A cluster key with the axes exchanged: center.x * 5 + center.y.
centerKeyXMajor(meta, cluster) ==
    5 * H * SumSeq([k \in 1..Len(cluster) |-> meta[cluster[k]].cx2])
      + W * SumSeq([k \in 1..Len(cluster) |-> meta[cluster[k]].cy2])

\* center.y * 5 + center.x of a cluster, times 2 * SM * W * H * (its size).
centerKey(meta, cluster) ==
    5 * W * SumSeq([k \in 1..Len(cluster) |-> meta[cluster[k]].cy2])
      + H * SumSeq([k \in 1..Len(cluster) |-> meta[cluster[k]].cx2])

clusterLess(meta, a, b) ==
    ProductLess(centerKey(meta, a), Len(b), centerKey(meta, b), Len(a))

\* Squared distance from the end of path e to the start of path s, on
\* normalised coordinates, times (SM*W*H)^2.
startDistance(e, s) ==
    LET end == e.points[Len(e.points)]
        st  == s.points[1]
    IN  SumSquares(H * (st.x - end.x), W * (st.y - end.y))

RemoveAt(seq, i) == [k \in 1..(Len(seq) - 1) |-> IF k < i THEN seq[k] ELSE seq[k + 1]]

\* while (remaining.length > 0): chain to the nearest start; the first of
\* equally near candidates wins (d < bDist).
RECURSIVE chain(_, _, _, _)
chain(meta, curr, remaining, out) ==
    IF remaining = <<>> THEN out
    ELSE LET d(i) == startDistance(meta[curr].path, meta[remaining[i]].path)
             bIdx == CHOOSE i \in 1..Len(remaining) :
                        /\ \A j \in 1..Len(remaining) : ~DigitsLess(d(j), d(i))
                        /\ \A j \in 1..(i - 1) : DigitsLess(d(i), d(j))
         IN  chain(meta, remaining[bIdx], RemoveAt(remaining, bIdx),
                   Append(out, meta[remaining[bIdx]].path))

\* A chaining that forgets to emit the path it starts from.
orderClusterSkipsFirst(meta, cluster) ==
    LET byTop == StableSort(cluster, LAMBDA a, b : meta[a].minY < meta[b].minY)
    IN  chain(meta, Head(byTop), Tail(byTop), <<>>)

orderCluster(meta, cluster) ==
    LET byTop == StableSort(cluster, LAMBDA a, b : meta[a].minY < meta[b].minY)
    IN  chain(meta, Head(byTop), Tail(byTop), <<meta[Head(byTop)].path>>)

RECURSIVE Flatten(_)
Flatten(ss) == IF ss = <<>> THEN <<>> ELSE Head(ss) \o Flatten(Tail(ss))

\* meta: each path with its bounds (index is the position in the sequence).
pathMeta(p) ==
    LET b == getBounds(p)
    IN  [cx2 |-> b.cx2, cy2 |-> b.cy2, minX |-> b.minX, minY |-> b.minY,
         maxX |-> b.maxX, maxY |-> b.maxY, path |-> p]

sortPathsSmart(pathsToSort) ==
    IF Len(pathsToSort) = 0 THEN <<>>
    ELSE LET meta == [i \in 1..Len(pathsToSort) |-> pathMeta(pathsToSort[i])]
             clusters == findClusters(meta, 1, {}, <<>>)
             sorted == StableSort(clusters, LAMBDA a, b : clusterLess(meta, a, b))
         IN  Flatten([c \in 1..Len(sorted) |-> orderCluster(meta, sorted[c])])

\* The drawing-order policy applied to an image layer's paths.
organizeLayer(drawingOrder, paths) ==
    IF drawingOrder = "smart-flow" THEN sortPathsSmart(paths)
    ELSE IF drawingOrder # "random" THEN sortTopToBottom(paths)
    ELSE paths

\* The drawing-order policy applied to a text element's paths.
organizeText(drawingOrder, paths) ==
    IF drawingOrder = "smart-flow" THEN sortPathsSmart(paths) ELSE paths

-----------------------------------------------------------------------------
(* Rasters under analysis *)

HorizRun(x0, y0, n) == {Pt(x0 + i, y0) : i \in 0..(n - 1)}
VertRun(x0, y0, n) == {Pt(x0, y0 + i) : i \in 0..(n - 1)}
DiagRun(x0, y0, n) == {Pt(x0 + i, y0 + i) : i \in 0..(n - 1)}

\* The edge runs rasters are made of: the pixels of the run, and their
\* gradient magnitude (200 for a strong edge, 60 for a faint one).
Placements ==
    << [pixels |-> HorizRun(4, 3, 8), mag |-> 200],
       [pixels |-> HorizRun(6, 5, 8), mag |-> 60],
       [pixels |-> HorizRun(30, 4, 8), mag |-> 200],
       [pixels |-> VertRun(10, 20, 8), mag |-> 200],
       [pixels |-> HorizRun(12, 22, 8), mag |-> 200],
       [pixels |-> VertRun(70, 2, 30), mag |-> 200],
       [pixels |-> HorizRun(60, 9, 8), mag |-> 200],
       [pixels |-> DiagRun(40, 30, 8), mag |-> 200],
       [pixels |-> HorizRun(4, 10, 8), mag |-> 200],
       [pixels |-> HorizRun(3, 7, 4), mag |-> 200] >>

\* The magnitude field of the raster made of the runs in S.
MagOfRuns(S) ==
    LET px == UNION {Placements[i].pixels : i \in S}
    IN  [q \in px |-> SetMax({Placements[i].mag : i \in {k \in S : q \in Placements[k].pixels}})]

\* edgeSensitivity values of the settings slider, in hundredths.
Sensitivities == {50, 80}
DrawingOrders == {"top-to-bottom", "random", "smart-flow"}

\* The image layers and the text element of the scenes, by id, and the runs
\* their rasters hold.
LayerIds == {"A", "B", "C"}
TextIds == {"T"}
\* A layer whose image is broken: drawImage throws on it.
BrokenIds == {"X"}
RunsOf(id) ==
    CASE id = "A" -> {1, 2, 3}
      [] id = "X" -> {}
      [] id = "B" -> {4, 5}
      [] id = "C" -> {2}
      [] OTHER    -> {7, 9}

\* renderItemCanvas: the raster of a layer or of a text element, or none (<<>>).
\* A drawImage that throws is caught and logged, and the canvas is returned
\* all the same, with nothing on it (n: what was drawn on the canvas).
renderItemCanvas(id) ==
    <<[kind |-> "item", ids |-> <<id>>, n |-> IF id \in BrokenIds THEN 0 ELSE 1, grain |-> 0]>>

\* generatePaths(analysis) for each item and each sensitivity.
analysed ==
    [id \in LayerIds \cup BrokenIds \cup TextIds |->
        [s \in Sensitivities |-> generatePaths(MagOfRuns(RunsOf(id)), s)]]

\* newItems.push({ id: layer.id, type: 'image', paths, colorCanvas: display, ... })
\* when both rasters of the layer rendered.  An item keeps the fields draw
\* reads: id, type, paths, colorCanvas.
imageItem(id, st) ==
    IF renderItemCanvas(id) # <<>>
    THEN <<[id |-> id, type |-> "image",
            paths |-> organizeLayer(st.drawingOrder, analysed[id][st.edgeSensitivity]),
            colorCanvas |-> renderItemCanvas(id)[1]]>>
    ELSE <<>>

\* newItems.push({ id: text.id, type: 'text', paths, colorCanvas: display, ... })
textItem(id, st) ==
    IF renderItemCanvas(id) # <<>>
    THEN <<[id |-> id, type |-> "text",
            paths |-> organizeText(st.drawingOrder, analysed[id][st.edgeSensitivity]),
            colorCanvas |-> renderItemCanvas(id)[1]]>>
    ELSE <<>>

\* Items put in the order of the y their first path starts at, pathless items
\* last, instead of the order of the layers.
processItemsByFirstPath(ls, ts, st) ==
    LET top(it) == IF Len(it.paths) = 0 THEN SM * H + 1 ELSE it.paths[1].points[1].y
    IN  StableSort(Flatten([i \in 1..Len(ls) |-> imageItem(ls[i], st)]),
                   LAMBDA a, b : top(a) < top(b))
          \o Flatten([i \in 1..Len(ts) |-> textItem(ts[i], st)])

\* The body of processItems between its two state updates: newItems, the
\* layers' items in the order of the layers, then the text elements' items.
processItems(ls, ts, st) ==
    Flatten([i \in 1..Len(ls) |-> imageItem(ls[i], st)])
      \o Flatten([i \in 1..Len(ts) |-> textItem(ts[i], st)])

\* A total that counts the points of the first path only.
totalLenFirstPath(paths) == IF paths = <<>> THEN 0 ELSE Len(paths[1].points)

\* let totalLen = 0; item.paths.forEach(p => totalLen += p.points.length)
totalLen(paths) == SumSeq([i \in 1..Len(paths) |-> Len(paths[i].points)])

-----------------------------------------------------------------------------
(* Gradients of a gray raster, and the two edge masks *)

\* gray (a Uint8Array): a raster is the function from its painted pixels to
\* their gray level; a transparent pixel is 255.
grayAt(g, p) == IF p \in DOMAIN g THEN g[p] ELSE 255

kernelX == <<-1, 0, 1, -2, 0, 2, -1, 0, 1>>
kernelY == <<-1, -2, -1, 0, 0, 0, 1, 2, 1>>

\* The pixel the k-th kernel entry weighs: ky and kx run from -1 to 1, kx inside.
kernelPixel(p, k) == Pt(p.x + ((k - 1) % 3) - 1, p.y + ((k - 1) \div 3) - 1)
pixelX(g, p) == SumSeq([k \in 1..9 |-> grayAt(g, kernelPixel(p, k)) * kernelX[k]])
pixelY(g, p) == SumSeq([k \in 1..9 |-> grayAt(g, kernelPixel(p, k)) * kernelY[k]])

\* magnitudes[y * w + x] = Math.sqrt(pixelX^2 + pixelY^2), kept as its square
\* (the order of two magnitudes is the order of their squares); the loop
\* leaves the border pixels at 0.
magnitudeSq(g, p) ==
    IF InInterior(p) THEN pixelX(g, p) * pixelX(g, p) + pixelY(g, p) * pixelY(g, p) ELSE 0

\* The interior pixels whose 3 x 3 window holds a painted pixel: everywhere
\* else the gradient is 0.
Touched(g) ==
    {q \in UNION {{kernelPixel(p, k) : k \in 1..9} : p \in DOMAIN g} : InInterior(q)}

\* The integer part of a square root: for an integer threshold t,
\* Math.sqrt(v) < t exactly when ISqrt(v) < t.
ISqrt(v) == CHOOSE r \in 0..1443 : r * r <= v /\ v < (r + 1) * (r + 1)

\* The magnitude field generatePaths thresholds, on the pixels where it is not 0.
magnitudes(g) ==
    [p \in {q \in Touched(g) : magnitudeSq(g, q) > 0} |-> ISqrt(magnitudeSq(g, p))]

\* directions[y * w + x]: atan2(pixelY, pixelX) in degrees, brought into
\* [0, 180] and quantized to 0, 45, 90 or 135.  tan(22.5 deg) = sqrt(2) - 1, so
\* |b| < tan(22.5 deg) * |a| exactly when (|a| + |b|)^2 < 2 * a^2.
quantizedDirection(px, py) ==
    LET ax == Abs(px)
        ay == Abs(py)
    IN  IF (ax = 0 /\ ay = 0) \/ (ax + ay) * (ax + ay) < 2 * ax * ax THEN 0
        ELSE IF (ax + ay) * (ax + ay) < 2 * ay * ay THEN 90
        ELSE IF (px > 0) = (py > 0) THEN 45
        ELSE 135

\* The two neighbours of p along its quantized gradient direction.
alongGradient(p, q) ==
    CASE q = 0  -> {Pt(p.x - 1, p.y), Pt(p.x + 1, p.y)}
      [] q = 90 -> {Pt(p.x, p.y - 1), Pt(p.x, p.y + 1)}
      [] q = 45 -> {Pt(p.x - 1, p.y - 1), Pt(p.x + 1, p.y + 1)}
      [] OTHER  -> {Pt(p.x + 1, p.y - 1), Pt(p.x - 1, p.y + 1)}

localMaximum(g, p) ==
    \A m \in alongGradient(p, quantizedDirection(pixelX(g, p), pixelY(g, p))) :
        magnitudeSq(g, p) >= magnitudeSq(g, m)

\* The edge mask of the alternate canvas: threshold, then non-maximum
\* suppression.
suppressedEdges(g, edgeSensitivity) ==
    {p \in Touched(g) :
        /\ ~(magnitudeSq(g, p) < threshold(edgeSensitivity) * threshold(edgeSensitivity))
        /\ localMaximum(g, p)}

-----------------------------------------------------------------------------
(* draw *)

\* Progress values are integers in units of 1 / PD.
PD == 3 * 4 * 5
\* Offsets (in canvas widths or heights) and alphas are in units of 1 / One,
\* scales in units of 1 / (5 * One).
One == PD * PD

ColorRaster(color) == [kind |-> "color", ids |-> <<color>>, n |-> 0, grain |-> 0]
PathRef(item, p) == [kind |-> "path", ids |-> <<item.id>>, n |-> p.oid, grain |-> 0]
HandRaster(kind) == [kind |-> "hand", ids |-> <<kind>>, n |-> 0, grain |-> 0]
TextRaster(text) == [kind |-> "text", ids |-> <<text>>, n |-> 0, grain |-> 0]

\* One canvas operation: what is painted, where, how opaque, how scaled, and
\* how much of it (points of a path, or the numerator of the clip height).
Op(op, of, tx, ty, alpha, sc, len) ==
    [op |-> op, of |-> of, tx |-> tx, ty |-> ty, alpha |-> alpha, sc |-> sc, len |-> len]

\* if (staticBackground) drawImage(staticBackground) else fillRect(paperColor)
paper(c, tx, ty, alpha, sc) ==
    IF c.staticBackground # <<>>
    THEN Op("drawImage", c.staticBackground[1], tx, ty, alpha, sc, 0)
    ELSE Op("fillRect", ColorRaster(c.settings.paperColor), tx, ty, alpha, sc, 0)

\* The cubic ease-out 1 - (1 - t)^3, times One.
easeOutCubic(tS) == One - ((PD - tS) * (PD - tS) * (PD - tS)) \div PD

\* ease = t < 0.5 ? 2 * t * t : -1 + (4 - 2 * t) * t, for t = tS / PD, times One.
ease(tS) == IF 2 * tS < PD THEN 2 * tS * tS ELSE (4 * PD - 2 * tS) * tS - One

\* switch (transition.direction): the unit offset of the incoming sheet.
panVector(direction) ==
    CASE direction = "right" -> [x |-> 1, y |-> 0]
      [] direction = "left" -> [x |-> -1, y |-> 0]
      [] direction = "up" -> [x |-> 0, y |-> -1]
      [] direction = "down" -> [x |-> 0, y |-> 1]
      [] OTHER -> [x |-> 1, y |-> 0]

prevOps(c, tx, ty, alpha, sc) ==
    IF c.prevCompositeCanvas # <<>>
    THEN <<Op("drawImage", c.prevCompositeCanvas[1], tx, ty, alpha, sc, 0)>>
    ELSE <<>>

\* The transition branch, for currentProgress < 0 and a transition that is
\* not a cut.
transitionOps(c, currentProgress) ==
    LET tS == PD + currentProgress
        e == ease(tS)
        tr == c.transition[1]
        v == panVector(tr.direction)
    IN  CASE tr.type = "pan" ->
               prevOps(c, -(v.x * e), -(v.y * e), One, 5 * One)
                 \o <<paper(c, v.x * (One - e), v.y * (One - e), One, 5 * One)>>
          [] tr.type = "fade" ->
               prevOps(c, 0, 0, (PD - tS) * PD, 5 * One)
                 \o <<paper(c, 0, 0, tS * PD, 5 * One)>>
          [] tr.type = "zoom" ->
               prevOps(c, 0, 0, One - e, 5 * One + tS * PD)
                 \o <<paper(c, 0, 0, e, 4 * One + e)>>
          [] tr.type = "paper-slide" ->
               LET tx == v.x * (One - e)
                   ty == v.y * (One - e)
               IN  (IF c.prevCompositeCanvas # <<>>
                    THEN prevOps(c, 0, 0, One, 5 * One)
                    ELSE <<Op("fillRect", ColorRaster("#ffffff"), 0, 0, One, 5 * One, 0)>>)
                     \o <<Op("shadow", ColorRaster("rgba(0,0,0,0.3)"),
                             IF tx > 0 THEN -15 ELSE 15, IF ty > 0 THEN -15 ELSE 15,
                             One, 5 * One, 50),
                          paper(c, tx, ty, One, 5 * One)>>
          [] OTHER -> <<>>

\* strokeStyle and lineWidth (in tenths) of the line style.
styleOp(st) ==
    IF st.lineStyle = "marker"
    THEN Op("style", ColorRaster("#000"), 0, 0, One, 5 * One, 20 * st.brushThickness)
    ELSE IF st.lineStyle = "pen"
    THEN Op("style", ColorRaster("#09090b"), 0, 0, One, 5 * One, 64 * st.brushThickness)
    ELSE Op("style", ColorRaster("#3f3f46"), 0, 0, One, 5 * One, 10 * st.brushThickness)

strokeOp(item, p, drawLen) == Op("stroke", PathRef(item, p), 0, 0, One, 5 * One, drawLen)

\* points[i] (0-based): the point, or undefined (<<>>) outside the array.
pointAt(points, i) == IF i + 1 \in DOMAIN points THEN <<points[i + 1]>> ELSE <<>>

\* Reading .x of an undefined point throws: the forEach and draw end there.
TypeError == [kind |-> "TypeError", x |-> 0, y |-> 0]
Thrown(hand) == hand # <<>> /\ hand[1].kind = "TypeError"

\* The hand's target point taken four points ahead without the clamp.
targetIndexUnclamped(idxA, pLen) == idxA + 4

\* Math.min(pLen - 1, idxA + 4)
targetIndex(idxA, pLen) == Min(pLen - 1, idxA + 4)

\* for (const pathObj of item.paths): k is the next path, drawnCount the points
\* of the paths before it, hand the activeHandPos so far, ptN the numerator of
\* pointsToDrawFloat over PD and lpN that of localProgress.
RECURSIVE strokeLoop(_, _, _, _, _, _, _)
strokeLoop(item, k, drawnCount, hand, ops, ptN, lpN) ==
    IF k > Len(item.paths) THEN [ops |-> ops, hand |-> hand]
    ELSE LET pathObj == item.paths[k]
             pLen == Len(pathObj.points)
             lFI == ptN - drawnCount * PD
             idxA == lFI \div PD
             idxB == Min(idxA + 1, pLen - 1)
             t == lFI % PD
             pA == pointAt(pathObj.points, idxA)
             pB == pointAt(pathObj.points, idxB)
             pBase == pointAt(pathObj.points, Max(0, idxA - 2))
             pTarget == pointAt(pathObj.points, targetIndex(idxA, pLen))
             hand2 == IF /\ lpN < PD /\ hand = <<>>
                         /\ ptN >= drawnCount * PD /\ ptN < (drawnCount + pLen) * PD
                      THEN IF pA = <<>> \/ pB = <<>> \/ pBase = <<>> \/ pTarget = <<>>
                           THEN <<TypeError>>
                           ELSE <<[kind |-> "tip",
                                   x |-> pA[1].x * PD + (pB[1].x - pA[1].x) * t,
                                   y |-> pA[1].y * PD + (pB[1].y - pA[1].y) * t]>>
                      ELSE hand
             drawLen == Min((ptN \div PD) - drawnCount, pLen)
         IN  IF Thrown(hand2) \/ drawnCount >= ptN \div PD THEN [ops |-> ops, hand |-> hand2]
             ELSE strokeLoop(item, k + 1, drawnCount + pLen, hand2,
                             IF drawLen > 0 THEN Append(ops, strokeOp(item, pathObj, drawLen))
                             ELSE ops,
                             ptN, lpN)

\* currentProgress > itemEnd, which leaves the item whose slice just ended
\* in its animated state.
pastItemEndStrict(currentProgress, index, n) == currentProgress * n > 2 * PD * (index + 1)

\* currentProgress >= itemEnd, for itemEnd = (index + 1) * (2.0 / n)
pastItemEnd(currentProgress, index, n) == currentProgress * n >= 2 * PD * (index + 1)

\* The test of an item's start left out for the first item.
beforeItemStartLaterItems(currentProgress, index, n) ==
    index > 0 /\ currentProgress * n < 2 * PD * index

\* currentProgress < itemStart, for itemStart = index * (2.0 / n)
beforeItemStart(currentProgress, index, n) == currentProgress * n < 2 * PD * index

\* The held sketch without its test of localProgress.
sketchHeldAlways(localProgress, colorProgress) == colorProgress = 0

\* The sketch held at the end of the sketch only, not through the pause.
sketchHeldAtOne(localProgress, colorProgress) == localProgress = PD /\ colorProgress = 0

\* localProgress >= 1.0 && colorProgress === 0
sketchHeld(localProgress, colorProgress) == localProgress >= PD /\ colorProgress = 0

\* The body of processedItems.forEach for the item at index (0-based) of n.
drawItem(c, currentProgress, item, index, n, acc) ==
    IF Thrown(acc.hand) THEN acc
    ELSE IF pastItemEnd(currentProgress, index, n)
    THEN [ops |-> Append(acc.ops, Op("drawImage", item.colorCanvas, 0, 0, One, 5 * One, 0)),
          hand |-> acc.hand]
    ELSE IF beforeItemStart(currentProgress, index, n) THEN acc
    ELSE LET localProgress == currentProgress * n - 2 * PD * index
             sketchProgress == Min(Max(localProgress, 0), PD)
             colorProgress == Max(10 * localProgress - 11 * PD, 0)
             sk == strokeLoop(item, 1, 0, acc.hand, Append(acc.ops, styleOp(c.settings)),
                              totalLen(item.paths) * sketchProgress, localProgress)
             held == IF sketchHeld(localProgress, colorProgress)
                     THEN [i \in 1..Len(item.paths) |->
                             strokeOp(item, item.paths[i], Len(item.paths[i].points))]
                     ELSE <<>>
             \* moveTo(pObj.points[0].x * w, ...) of the held sketch
             heldThrows == held # <<>> /\ \E i \in 1..Len(item.paths) :
                                             pointAt(item.paths[i].points, 0) = <<>>
         IN  IF Thrown(sk.hand) THEN sk
             ELSE IF heldThrows THEN [ops |-> sk.ops, hand |-> <<TypeError>>]
             ELSE IF colorProgress > 0
             THEN [ops |-> (sk.ops \o held)
                             \o <<Op("clipImage", item.colorCanvas, 0, 0, One, 5 * One,
                                     colorProgress)>>,
                   hand |-> <<[kind |-> "sweep", x |-> colorProgress, y |-> colorProgress]>>]
             ELSE [ops |-> sk.ops \o held, hand |-> sk.hand]

RECURSIVE drawItems(_, _, _, _)
drawItems(c, currentProgress, index, acc) ==
    IF index >= Len(c.processedItems) THEN acc
    ELSE drawItems(c, currentProgress, index + 1,
                   drawItem(c, currentProgress, c.processedItems[index + 1], index,
                            Len(c.processedItems), acc))

\* drawHand: nothing while the hand image has not loaded.
drawHand(c, pos) ==
    IF c.handImage = "null" THEN <<>>
    ELSE <<Op("drawImage", HandRaster(pos.kind), pos.x, pos.y, One, 5 * One, 0)>>

NoReport == [called |-> FALSE, pos |-> <<>>]
Report(pos) == [called |-> TRUE, pos |-> pos]

\* draw(ctx, currentProgress, CANVAS_WIDTH, CANVAS_HEIGHT) in the scope c of a
\* render: the operations put on the canvas, the camera transform they are
\* under (none when draw returns before applying it) and the onHandMove call.
draw(c, currentProgress) ==
    LET bg == <<paper(c, 0, 0, One, 5 * One)>>
    IN  IF c.isProcessing
        THEN [ops |-> Append(bg, Op("fillText", TextRaster("Processing scene..."),
                                    0, 0, One, 5 * One, 0)),
              camera |-> <<>>, hand |-> NoReport, thrown |-> FALSE]
        ELSE IF currentProgress < 0 /\ c.transition # <<>> /\ c.transition[1].type # "cut"
        THEN [ops |-> bg \o transitionOps(c, currentProgress),
              camera |-> <<c.camera>>, hand |-> Report(<<>>), thrown |-> FALSE]
        ELSE IF Len(c.processedItems) = 0
        THEN [ops |-> bg, camera |-> <<c.camera>>, hand |-> Report(<<>>), thrown |-> FALSE]
        ELSE LET r == drawItems(c, currentProgress, 0, [ops |-> bg, hand |-> <<>>])
             IN  IF Thrown(r.hand)
                 THEN [ops |-> r.ops, camera |-> <<c.camera>>, hand |-> NoReport,
                       thrown |-> TRUE]
                 ELSE IF c.settings.showHand /\ r.hand # <<>>
                 THEN [ops |-> r.ops \o drawHand(c, r.hand[1]),
                       camera |-> <<c.camera>>, hand |-> Report(r.hand), thrown |-> FALSE]
                 ELSE [ops |-> r.ops, camera |-> <<c.camera>>, hand |-> Report(<<>>),
                       thrown |-> FALSE]

-----------------------------------------------------------------------------
(* The application state and the component's effects *)

defaultSettings ==
    [brushThickness |-> 2, paperColor |-> "#fcf5e5", paperTexture |-> "grainy",
     textureIntensity |-> 30, showHand |-> TRUE, strokeSmoothness |-> 50,
     drawingOrder |-> "top-to-bottom", edgeSensitivity |-> 50, lineStyle |-> "pencil"]

defaultTransition == [type |-> "cut", direction |-> "right", duration |-> PD]
defaultCamera == [x |-> 0, y |-> 0, zoom |-> 100]

\* One frame of the timeline, with the fields the canvas is fed from.
Frame(ls, tr, cam) == [layers |-> ls, transition |-> tr, camera |-> cam, duration |-> 5]

\* transition={timelineImages[currentImageIndex]?.transition}
transition ==
    IF currentImageIndex + 1 \in DOMAIN timelineImages
    THEN <<timelineImages[currentImageIndex + 1].transition>>
    ELSE <<>>

\* previousLayers={currentImageIndex > 0 ? timelineImages[currentImageIndex - 1].layers : []}
previousLayersOf(tl, idx) == IF idx > 0 THEN tl[idx].layers ELSE <<>>
previousLayers == previousLayersOf(timelineImages, currentImageIndex)

\* The previous-frame composite effect: none for no previous layers, else a
\* white canvas with the previous layers drawn in order.
prevComposite(prev) ==
    IF Len(prev) = 0 THEN <<>>
    ELSE <<[kind |-> "composite", ids |-> prev, n |-> 0, grain |-> 0]>>

\* The outcomes of Math.random in the grain loop.
Grains == {1, 2}

\* The static background effect: the paper raster for the settings, with grain
\* g where the texture draws any.
paperRaster(st, g) ==
    <<[kind |-> "paper", ids |-> <<st.paperColor, st.paperTexture>>,
       n |-> st.textureIntensity,
       grain |-> IF st.paperTexture # "none" /\ st.textureIntensity > 0 THEN g ELSE 0]>>

\* A background effect that depends on the whole settings object.
paperChangedAnySetting(old, new) == old # new

\* The dependencies of the background effect: [settings.paperColor,
\* settings.paperTexture, settings.textureIntensity].
paperChanged(old, new) ==
    \/ new.paperColor # old.paperColor
    \/ new.paperTexture # old.paperTexture
    \/ new.textureIntensity # old.textureIntensity

\* The scope of the current render, which draw closes over.
Scope ==
    [staticBackground |-> staticBackground, settings |-> settings,
     isProcessing |-> isProcessing, camera |-> camera, transition |-> transition,
     prevCompositeCanvas |-> prevCompositeCanvas, processedItems |-> processedItems,
     handImage |-> handImage]

\* What the callback of the debounce timer closed over.
Closure(ls, ts, st) ==
    [layers |-> ls, textElements |-> ts,
     edgeSensitivity |-> st.edgeSensitivity, drawingOrder |-> st.drawingOrder]

\* An effect without its cleanup: the pending timer stays and fires with what
\* it closed over.
armTimerKeepsPending(pending, closure) == IF pending # <<>> THEN pending ELSE <<closure>>

\* The effect's cleanup (clearTimeout of the pending timer) followed by
\* setTimeout(processItems, 10).
armTimer(pending, closure) == <<closure>>

runClosure(cl) ==
    processItems(cl.layers, cl.textElements,
                 [edgeSensitivity |-> cl.edgeSensitivity, drawingOrder |-> cl.drawingOrder])

\* No handler runs while a scheduled draw effect or a processItems call is
\* under way.
Idle == ~pendingDraw /\ running = <<>>

\* The processing effect re-running in a render with props ls, ts, st: with
\* nothing to process it stores [] at once, else it debounces.
ProcessingEffect(ls, ts, st) ==
    IF Len(ls) = 0 /\ Len(ts) = 0
    THEN /\ processedItems' = <<>>
         /\ timeoutId' = <<>>
    ELSE /\ timeoutId' = armTimer(timeoutId, Closure(ls, ts, st))
         /\ UNCHANGED processedItems

Harness == <<image, traced, organized, gray, extracted>>
Playback == <<isPlaying, speed, lastTimeRef, holdTime, history>>

-----------------------------------------------------------------------------
(* Handlers of the application *)

NoDup(seq) == \A i, j \in 1..Len(seq) : i # j => seq[i] # seq[j]
LayerSeqs == {q \in UNION {[1..k -> LayerIds] : k \in 0..MaxLayers} : NoDup(q)}

\* handleLayersUpdate(newLayers): a reorder, a deletion, a transform or an
\* added image of the current frame.
handleLayersUpdate(newLayers) ==
    /\ Idle
    /\ currentImageIndex + 1 \in DOMAIN timelineImages
    /\ layers' = newLayers
    /\ timelineImages' = [timelineImages EXCEPT ![currentImageIndex + 1].layers = newLayers]
    /\ ProcessingEffect(newLayers, textElements, settings)
    /\ pendingDraw' = (Len(newLayers) = 0 /\ Len(textElements) = 0)
    /\ UNCHANGED <<currentImageIndex, textElements, camera, progress, settings,
                   isProcessing, prevCompositeCanvas, staticBackground, handImage,
                   running, canvas, drawnWith, currentHandPosRef, Harness, Playback>>

\* setTextElements, from the text overlay.
setTextElements(ts) ==
    /\ Idle
    /\ textElements' = ts
    /\ ProcessingEffect(layers, ts, settings)
    /\ pendingDraw' = (Len(layers) = 0 /\ Len(ts) = 0)
    /\ UNCHANGED <<timelineImages, currentImageIndex, layers, camera, progress,
                   settings, isProcessing, prevCompositeCanvas, staticBackground,
                   handImage, running, canvas, drawnWith, currentHandPosRef, Harness, Playback>>

\* setSettings(newSettings) from the settings panel: the processing effect
\* re-runs when one of its three settings changed, the background effect when
\* the paper changed (with grain g), the draw effect always.
setSettings(newSettings, g) ==
    /\ Idle
    /\ newSettings # settings
    /\ settings' = newSettings
    /\ IF \/ newSettings.edgeSensitivity # settings.edgeSensitivity
          \/ newSettings.strokeSmoothness # settings.strokeSmoothness
          \/ newSettings.drawingOrder # settings.drawingOrder
       THEN ProcessingEffect(layers, textElements, newSettings)
       ELSE UNCHANGED <<processedItems, timeoutId>>
    /\ IF paperChanged(settings, newSettings)
       THEN staticBackground' = paperRaster(newSettings, g)
       ELSE UNCHANGED staticBackground
    /\ pendingDraw' = TRUE
    /\ UNCHANGED <<timelineImages, currentImageIndex, layers, textElements, camera,
                   progress, isProcessing, prevCompositeCanvas, handImage, running,
                   canvas, drawnWith, currentHandPosRef, Harness, Playback>>

\* onSeek(index, p) of the timeline track: the frame and the playhead move,
\* then the frame's layers and camera are taken over.
onSeek(index, p) ==
    /\ Idle
    /\ index + 1 \in DOMAIN timelineImages
    /\ index # currentImageIndex \/ p # progress
    /\ currentImageIndex' = index
    /\ progress' = p
    /\ layers' = timelineImages[index + 1].layers
    /\ camera' = timelineImages[index + 1].camera
    /\ prevCompositeCanvas' = prevComposite(previousLayersOf(timelineImages, index))
    /\ IF index # currentImageIndex
       THEN ProcessingEffect(timelineImages[index + 1].layers, textElements, settings)
       ELSE UNCHANGED <<processedItems, timeoutId>>
    /\ pendingDraw' = TRUE
    /\ isPlaying' = FALSE
    /\ UNCHANGED <<timelineImages, textElements, settings, isProcessing,
                   staticBackground, handImage, running, canvas, drawnWith,
                   currentHandPosRef, Harness, speed, lastTimeRef, holdTime, history>>

\* handleTransitionUpdate(updates): only the frame changes; no dependency
\* of the draw effect does.
handleTransitionUpdate(tr) ==
    /\ Idle
    /\ currentImageIndex + 1 \in DOMAIN timelineImages
    /\ tr # timelineImages[currentImageIndex + 1].transition
    /\ timelineImages' = [timelineImages EXCEPT ![currentImageIndex + 1].transition = tr]
    /\ UNCHANGED <<currentImageIndex, layers, textElements, camera, progress, settings,
                   processedItems, isProcessing, prevCompositeCanvas, staticBackground,
                   handImage, timeoutId, running, pendingDraw, canvas, drawnWith,
                   currentHandPosRef, Harness, Playback>>

\* img.onload = () => setHandImage(img)
HandImageLoaded ==
    /\ Idle
    /\ handImage = "null"
    /\ handImage' = "img"
    /\ pendingDraw' = TRUE
    /\ UNCHANGED <<timelineImages, currentImageIndex, layers, textElements, camera,
                   progress, settings, processedItems, isProcessing,
                   prevCompositeCanvas, staticBackground, timeoutId, running, canvas,
                   drawnWith, currentHandPosRef, Harness, Playback>>

\* addImagesToTimeline(imgs): the first image makes the first frame, a later
\* one joins the layers of the current frame.
addImagesToTimeline(imgs) ==
    /\ Idle
    /\ LET newLayers == IF Len(timelineImages) > 0 THEN layers \o imgs ELSE imgs
       IN  /\ Len(timelineImages) > 0 => currentImageIndex + 1 \in DOMAIN timelineImages
           /\ timelineImages' =
                 IF Len(timelineImages) > 0
                 THEN [timelineImages EXCEPT ![currentImageIndex + 1].layers = newLayers]
                 ELSE <<Frame(newLayers, defaultTransition, defaultCamera)>>
           /\ layers' = newLayers
           /\ ProcessingEffect(newLayers, textElements, settings)
    \* the first frame brings its own camera object, a dependency of the draw effect
    /\ pendingDraw' = (Len(timelineImages) = 0)
    /\ UNCHANGED <<currentImageIndex, textElements, camera, progress, settings,
                   isProcessing, prevCompositeCanvas, staticBackground, handImage,
                   running, canvas, drawnWith, currentHandPosRef, Harness, Playback>>

-----------------------------------------------------------------------------
(* Frames added and deleted, the history and the project file *)

\* The render reads timelineImages[currentImageIndex - 1].layers when
\* currentImageIndex > 0: with no such frame it throws.
Renders(tl, idx) == idx > 0 => idx \in DOMAIN tl
Rendered == Renders(timelineImages, currentImageIndex)

\* The frame-sync effect after the timeline became tl and the index idx, and
\* the effects its state updates set off.  The frame at idx gives the layers
\* and, when not playing, the camera; an empty timeline gives no layer and
\* the default camera; with idx past the end nothing is taken over.
FrameSync(tl, idx, ts, playing) ==
    /\ layers' = IF idx + 1 \in DOMAIN tl THEN tl[idx + 1].layers
                 ELSE IF Len(tl) = 0 THEN <<>> ELSE layers
    /\ camera' = IF idx + 1 \in DOMAIN tl
                 THEN (IF playing THEN camera ELSE tl[idx + 1].camera)
                 ELSE IF Len(tl) = 0 THEN defaultCamera ELSE camera
    /\ prevCompositeCanvas' = prevComposite(previousLayersOf(tl, idx))
    /\ IF idx + 1 \in DOMAIN tl \/ Len(tl) = 0
       THEN ProcessingEffect(layers', ts, settings)
       ELSE UNCHANGED <<processedItems, timeoutId>>
    /\ pendingDraw' = TRUE

\* handleAddFrame: an empty frame of 5 seconds is appended and becomes the
\* current one.
handleAddFrame ==
    /\ Idle
    /\ Len(timelineImages) < MaxFrames
    /\ LET tl == Append(timelineImages, Frame(<<>>, defaultTransition, defaultCamera))
       IN  /\ timelineImages' = tl
           /\ currentImageIndex' = Len(timelineImages)
           /\ FrameSync(tl, Len(timelineImages), textElements, isPlaying)
    /\ UNCHANGED <<textElements, progress, settings, isProcessing, staticBackground,
                   handImage, running, canvas, drawnWith, currentHandPosRef, Harness,
                   Playback>>

\* handleDelete of the track, on the frame at position i:
\* onImagesChange(images.filter(img => img.id !== id)), which is
\* setTimelineImages.  Nothing else is set; the frame-sync effect follows when
\* the frame at the current index is another one than before, unless the
\* render threw.
handleDelete(i) ==
    /\ Idle
    /\ i + 1 \in DOMAIN timelineImages
    /\ LET tl == RemoveAt(timelineImages, i + 1)
       IN  /\ timelineImages' = tl
           /\ IF i <= currentImageIndex /\ Renders(tl, currentImageIndex)
              THEN FrameSync(tl, currentImageIndex, textElements, isPlaying)
              ELSE UNCHANGED <<layers, camera, prevCompositeCanvas, processedItems,
                               timeoutId, pendingDraw>>
    /\ UNCHANGED <<currentImageIndex, textElements, progress, settings, isProcessing,
                   staticBackground, handImage, running, canvas, drawnWith,
                   currentHandPosRef, Harness, Playback>>

\* The auto-snapshot timer firing, 2 seconds after the timeline or the text
\* changed: nothing is saved of an empty project.  A snapshot equal to one
\* already kept restores the same state and is left out.
takeSnapshot ==
    /\ Idle
    /\ ~(Len(timelineImages) = 0 /\ Len(textElements) = 0)
    /\ Len(history) < MaxSnapshots
    /\ LET snapshot == [timelineData |-> timelineImages, textData |-> textElements]
       IN  /\ \A k \in 1..Len(history) : history[k] # snapshot
           /\ history' = <<snapshot>> \o history
    /\ UNCHANGED <<timelineImages, currentImageIndex, layers, textElements, camera,
                   progress, settings, processedItems, isProcessing,
                   prevCompositeCanvas, staticBackground, handImage, timeoutId, running,
                   pendingDraw, canvas, drawnWith, currentHandPosRef, Harness,
                   isPlaying, speed, lastTimeRef, holdTime>>

\* handleRestore(snapshot): the timeline and the text of the snapshot, and
\* safeIndex = Math.min(currentImageIndex, restoredTimeline.length - 1) when
\* the restored timeline has a frame.
handleRestore(snapshot) ==
    /\ Idle
    /\ LET tl == snapshot.timelineData
           idx == IF Len(tl) > 0 THEN Min(currentImageIndex, Len(tl) - 1)
                  ELSE currentImageIndex
       IN  /\ timelineImages' = tl
           /\ textElements' = snapshot.textData
           /\ currentImageIndex' = idx
           /\ IF Renders(tl, idx)
              THEN FrameSync(tl, idx, snapshot.textData, isPlaying)
              ELSE UNCHANGED <<layers, camera, prevCompositeCanvas, processedItems,
                               timeoutId, pendingDraw>>
    /\ UNCHANGED <<progress, settings, isProcessing, staticBackground, handImage,
                   running, canvas, drawnWith, currentHandPosRef, Harness, Playback>>

\* handleLoadProject, on a file holding a timeline and text elements and
\* neither settings nor speed: the first frame, progress 0, not playing.
handleLoadProject(data) ==
    /\ Idle
    /\ timelineImages' = data.timeline
    /\ textElements' = data.textElements
    /\ currentImageIndex' = 0
    /\ progress' = 0
    /\ isPlaying' = FALSE
    /\ FrameSync(data.timeline, 0, data.textElements, FALSE)
    /\ UNCHANGED <<settings, isProcessing, staticBackground, handImage, running,
                   canvas, drawnWith, currentHandPosRef, Harness,
                   speed, lastTimeRef, holdTime, history>>

-----------------------------------------------------------------------------
(* The debounce timer firing, and the draw effect *)

\* processItems run from the timer with its two state updates batched into
\* one render (setIsProcessing(true) is never rendered).
processItemsBatched ==
    /\ Idle
    /\ timeoutId # <<>>
    /\ processedItems' = runClosure(timeoutId[1])
    /\ isProcessing' = FALSE
    /\ timeoutId' = <<>>
    /\ pendingDraw' = TRUE
    /\ UNCHANGED <<timelineImages, currentImageIndex, layers, textElements, camera,
                   progress, settings, prevCompositeCanvas, staticBackground,
                   handImage, running, canvas, drawnWith, currentHandPosRef, Harness, Playback>>

\* processItems run from the timer with each state update rendered on its
\* own: setIsProcessing(true) first ...
processItemsBegin ==
    /\ Idle
    /\ timeoutId # <<>>
    /\ running' = timeoutId
    /\ timeoutId' = <<>>
    /\ isProcessing' = TRUE
    /\ pendingDraw' = TRUE
    /\ UNCHANGED <<timelineImages, currentImageIndex, layers, textElements, camera,
                   progress, settings, processedItems, prevCompositeCanvas,
                   staticBackground, handImage, canvas, drawnWith, currentHandPosRef,
                   Harness, Playback>>

\* ... then setProcessedItems(newItems) and setIsProcessing(false), with no
\* await in between.
processItemsEnd ==
    /\ running # <<>>
    /\ ~pendingDraw
    /\ processedItems' = runClosure(running[1])
    /\ isProcessing' = FALSE
    /\ running' = <<>>
    /\ pendingDraw' = TRUE
    /\ UNCHANGED <<timelineImages, currentImageIndex, layers, textElements, camera,
                   progress, settings, prevCompositeCanvas, staticBackground,
                   handImage, timeoutId, canvas, drawnWith, currentHandPosRef, Harness, Playback>>

-----------------------------------------------------------------------------
(* Playback: the play/pause control and the animation-frame loop *)

\* const MAX_PROGRESS = 2.0, in units of 1 / PD
MAX_PROGRESS == 2 * PD
\* const PAUSE_DURATION = 2.0, in seconds
PAUSE_DURATION == 2
\* Timestamps are kept in ticks; delta = (timestamp - lastTimeRef.current) / 1000
\* seconds is a number of ticks over TicksPerSecond.
TicksPerSecond == 240

\* handlePlayPause: the play / pause control.  The frame-sync effect follows:
\* it takes the layers of the frame over and, when not playing, its camera.
handlePlayPause ==
    /\ Idle
    /\ Len(timelineImages) > 0
    /\ currentImageIndex + 1 \in DOMAIN timelineImages
    /\ lastTimeRef' = IF ~isPlaying THEN 0 ELSE lastTimeRef
    /\ LET atEnd == /\ progress >= MAX_PROGRESS
                    /\ currentImageIndex = Len(timelineImages) - 1
           index == IF atEnd THEN 0 ELSE currentImageIndex
       IN  /\ currentImageIndex' = index
           /\ progress' = IF atEnd THEN 0 ELSE progress
           /\ isPlaying' = ~isPlaying
           /\ layers' = timelineImages[index + 1].layers
           /\ camera' = IF isPlaying THEN timelineImages[index + 1].camera ELSE camera
           /\ IF index # currentImageIndex
              THEN /\ prevCompositeCanvas' = prevComposite(previousLayersOf(timelineImages, index))
                   /\ ProcessingEffect(timelineImages[index + 1].layers, textElements, settings)
              ELSE UNCHANGED <<prevCompositeCanvas, processedItems, timeoutId>>
           /\ pendingDraw' = (atEnd \/ camera' # camera)
    /\ UNCHANGED <<timelineImages, textElements, settings, isProcessing, staticBackground,
                   handImage, running, canvas, drawnWith, currentHandPosRef, Harness,
                   speed, holdTime, history>>

\* (nextType === 'pan' || nextType === 'paper-slide') ? -1.0 : 0
preroll(nextType) == IF nextType = "pan" \/ nextType = "paper-slide" THEN -PD ELSE 0

\* A test of the last frame that is off by one frame.
hasNextButOne(idx, tl) == idx < Len(tl) - 2

\* currentImageIndex < timelineImages.length - 1
hasNext(idx, tl) == idx < Len(tl) - 1

\* animate(timestamp), delta ticks after the frame before: the progress
\* update and the effects that follow it.
animate(delta) ==
    /\ Idle
    /\ isPlaying
    /\ currentImageIndex + 1 \in DOMAIN timelineImages
    /\ lastTimeRef' = 1
    /\ LET d == IF lastTimeRef = 0 THEN 0 ELSE delta
           currentImage == timelineImages[currentImageIndex + 1]
           td == IF currentImage.transition.duration = 0 THEN PD
                 ELSE currentImage.transition.duration
           \* progressPerSec = MAX_PROGRESS / currentImage.duration
           nextVal == progress + (d * speed * MAX_PROGRESS) \div (TicksPerSecond * currentImage.duration)
           \* pauseProgress = PAUSE_DURATION * progressPerSec
           totalProgressLimit ==
               MAX_PROGRESS + (PAUSE_DURATION * MAX_PROGRESS) \div currentImage.duration
           last == ~hasNext(currentImageIndex, timelineImages)
           next == timelineImages[currentImageIndex + 2]
       IN  /\ holdTime' =
                 IF progress < 0 THEN 0
                 ELSE IF progress >= MAX_PROGRESS THEN holdTime + d
                 ELSE IF nextVal >= MAX_PROGRESS
                 THEN ((nextVal - MAX_PROGRESS) * TicksPerSecond * currentImage.duration)
                         \div (speed * MAX_PROGRESS)
                 ELSE 0
           /\ IF progress < 0
              THEN /\ progress' = progress + (d * PD * PD) \div (TicksPerSecond * td)
                   /\ pendingDraw' = (d > 0)
                   /\ UNCHANGED <<currentImageIndex, isPlaying, layers, camera,
                                  prevCompositeCanvas, processedItems, timeoutId>>
              ELSE IF nextVal >= totalProgressLimit /\ ~last
              THEN /\ currentImageIndex' = currentImageIndex + 1
                   /\ progress' = preroll(next.transition.type)
                   /\ layers' = next.layers
                   /\ prevCompositeCanvas' = prevComposite(currentImage.layers)
                   /\ ProcessingEffect(next.layers, textElements, settings)
                   /\ pendingDraw' = TRUE
                   /\ UNCHANGED <<isPlaying, camera>>
              ELSE IF nextVal >= totalProgressLimit
              THEN /\ isPlaying' = FALSE
                   /\ progress' = MAX_PROGRESS
                   /\ camera' = currentImage.camera
                   /\ pendingDraw' = TRUE
                   /\ UNCHANGED <<currentImageIndex, layers, prevCompositeCanvas,
                                  processedItems, timeoutId>>
              ELSE /\ progress' = nextVal
                   /\ pendingDraw' = (d > 0)
                   /\ UNCHANGED <<currentImageIndex, isPlaying, layers, camera,
                                  prevCompositeCanvas, processedItems, timeoutId>>
    /\ UNCHANGED <<timelineImages, textElements, settings, isProcessing, staticBackground,
                   handImage, running, canvas, drawnWith, currentHandPosRef, Harness,
                   speed, history>>

\* setSpeed, from a loaded project.
setSpeed(v) ==
    /\ Idle
    /\ v # speed
    /\ speed' = v
    /\ UNCHANGED <<timelineImages, currentImageIndex, layers, textElements, camera,
                   progress, settings, processedItems, isProcessing,
                   prevCompositeCanvas, staticBackground, handImage, timeoutId, running,
                   pendingDraw, canvas, drawnWith, currentHandPosRef, Harness,
                   isPlaying, lastTimeRef, holdTime, history>>

\* globalTime, the time the audio is synchronized to, in seconds times
\* MAX_PROGRESS: the durations of the frames before the current one, and of
\* the current one the part progress / MAX_PROGRESS, progress clamped from
\* above only; Math.max(0, t) at the end.
globalTimeOf(tl, idx, p) ==
    IF Len(tl) = 0 THEN 0
    ELSE LET before == SumSeq([i \in 1..idx |-> tl[i].duration])
             currentDur == IF idx + 1 \in DOMAIN tl THEN tl[idx + 1].duration ELSE 0
             clampedProgress == Min(p, MAX_PROGRESS)
         IN  Max(0, MAX_PROGRESS * before + clampedProgress * currentDur)
globalTime == globalTimeOf(timelineImages, currentImageIndex, progress)

\* A handler without its else branch: a null position leaves the ref alone.
handleHandMoveKeepsLast(report) ==
    IF report.called /\ report.pos # <<>> THEN report.pos ELSE currentHandPosRef

\* handleHandMove(x, y), the onHandMove the application passes to the canvas.
handleHandMove(report) == IF report.called THEN report.pos ELSE currentHandPosRef

Drawing(sc, p, r) == [scope |-> sc, progress |-> p, hand |-> r.hand, thrown |-> r.thrown]
Painted(r) == [ops |-> r.ops, camera |-> r.camera]

\* The draw effect: draw(ctx, progress, CANVAS_WIDTH, CANVAS_HEIGHT).
Draw ==
    /\ pendingDraw
    /\ LET r == draw(Scope, progress)
       IN  /\ canvas' = Painted(r)
           /\ drawnWith' = Drawing(Scope, progress, r)
           /\ currentHandPosRef' = handleHandMove(r.hand)
    /\ pendingDraw' = FALSE
    /\ UNCHANGED <<timelineImages, currentImageIndex, layers, textElements, camera,
                   progress, settings, processedItems, isProcessing,
                   prevCompositeCanvas, staticBackground, handImage, timeoutId,
                   running, Harness, Playback>>

-----------------------------------------------------------------------------
(* The timeline track: clips, seeking and the playhead *)

\* const PX_PER_SEC = 40 and const MIN_CLIP_WIDTH = 100, in pixels
PX_PER_SEC == 40
MIN_CLIP_WIDTH == 100

\* clipMeta: of every clip the accumulated start time (seconds), the width
\* (pixels) and the duration.
clipMeta(images) ==
    [i \in 1..Len(images) |->
        [startTime |-> SumSeq([k \in 1..(i - 1) |-> images[k].duration]),
         width |-> Max(MIN_CLIP_WIDTH, images[i].duration * PX_PER_SEC),
         duration |-> images[i].duration]]

\* clipMeta.slice(0, n).reduce((acc, c) => acc + c.width, 0)
prevWidths(meta, n) == SumSeq([k \in 1..n |-> meta[k].width])

\* handleSeek(clientX), clickX pixels from the left end of the track: the
\* first clip that holds clickX, at localPercent * MAX_PROGRESS, or the end of
\* the last clip for a click past the end.  The division is exact for the
\* clicks and widths of the scenes.
handleSeek(clickX) ==
    LET meta == clipMeta(timelineImages)
        hits == {i \in 1..Len(meta) :
                    /\ clickX >= prevWidths(meta, i - 1)
                    /\ clickX <= prevWidths(meta, i - 1) + meta[i].width}
    IN  IF hits # {}
        THEN LET i == CHOOSE h \in hits : \A g \in hits : h <= g
                 offsetInClip == clickX - prevWidths(meta, i - 1)
                 \* localPercent, in units of 1 / meta[i].width
                 localPercent == Max(0, Min(meta[i].width, offsetInClip))
             IN  onSeek(i - 1, (localPercent * MAX_PROGRESS) \div meta[i].width)
        ELSE /\ clickX > prevWidths(meta, Len(meta))
             /\ Len(meta) > 0
             /\ onSeek(Len(meta) - 1, MAX_PROGRESS)

\* The progress the application passes to the track,
\* Math.min(progress, MAX_PROGRESS) / MAX_PROGRESS, in units of
\* 1 / (PD * MAX_PROGRESS).
progressProp(p) == Min(p, MAX_PROGRESS) * PD

\* The track's currentGlobalTime for the props it is given, in seconds times
\* MAX_PROGRESS * MAX_PROGRESS: startTime + duration * (progress / MAX_PROGRESS),
\* with progress in units of 1 / (PD * MAX_PROGRESS) and MAX_PROGRESS in
\* units of 1 / PD.
currentGlobalTime(images, currentIndex, prop) ==
    IF Len(images) = 0 \/ currentIndex + 1 \notin DOMAIN images THEN 0
    ELSE LET activeClip == clipMeta(images)[currentIndex + 1]
         IN  activeClip.startTime * MAX_PROGRESS * MAX_PROGRESS
                + activeClip.duration * prop

\* The track's playheadX, in pixels times MAX_PROGRESS * MAX_PROGRESS:
\* prevWidths + width * (progress / MAX_PROGRESS).
playheadX(images, currentIndex, prop) ==
    IF Len(images) = 0 \/ currentIndex + 1 \notin DOMAIN images THEN 0
    ELSE LET meta == clipMeta(images)
         IN  prevWidths(meta, currentIndex) * MAX_PROGRESS * MAX_PROGRESS
                + meta[currentIndex + 1].width * prop

-----------------------------------------------------------------------------
(* The organizer on its own: one raster, traced once and organized once *)

Images == {S \in SUBSET (1..Len(Placements)) : Cardinality(S) >= 1 /\ Cardinality(S) <= MaxRuns}

Trace(s) ==
    /\ traced = <<>>
    /\ traced' = <<[edgeSensitivity |-> s,
                    walks |-> traceWalks(MagOfRuns(image), s),
                    paths |-> generatePaths(MagOfRuns(image), s)]>>
    /\ UNCHANGED <<timelineImages, currentImageIndex, layers, textElements, camera,
                   progress, settings, processedItems, isProcessing,
                   prevCompositeCanvas, staticBackground, handImage, timeoutId,
                   running, pendingDraw, canvas, drawnWith, currentHandPosRef,
                   image, organized, gray, extracted, Playback>>

Organize(type, drawingOrder) ==
    /\ traced # <<>>
    /\ organized = <<>>
    /\ organized' = <<[type |-> type, drawingOrder |-> drawingOrder,
                       paths |-> IF type = "image"
                                 THEN organizeLayer(drawingOrder, traced[1].paths)
                                 ELSE organizeText(drawingOrder, traced[1].paths)]>>
    /\ UNCHANGED <<timelineImages, currentImageIndex, layers, textElements, camera,
                   progress, settings, processedItems, isProcessing,
                   prevCompositeCanvas, staticBackground, handImage, timeoutId,
                   running, pendingDraw, canvas, drawnWith, currentHandPosRef,
                   image, traced, gray, extracted, Playback>>

-----------------------------------------------------------------------------
(* Specifications *)

\* The component mounted with the given props, once its mount effects have
\* run: paper generated with grain g, hand image still loading, the first
\* draw done.
Mounted(g) ==
    /\ isProcessing = FALSE
    /\ prevCompositeCanvas = prevComposite(previousLayers)
    /\ staticBackground = paperRaster(settings, g)
    /\ handImage = "null"
    /\ timeoutId = <<>>
    /\ running = <<>>
    /\ pendingDraw = FALSE
    /\ canvas = Painted(draw(Scope, progress))
    /\ drawnWith = Drawing(Scope, progress, draw(Scope, progress))
    /\ currentHandPosRef = draw(Scope, progress).hand.pos

NoHarness ==
    /\ image = {} /\ traced = <<>> /\ organized = <<>>
    /\ gray = <<>> /\ extracted = <<>>

\* Playback stopped, at the default speed, and no snapshot taken yet.
Stopped ==
    /\ isPlaying = FALSE /\ speed = 1 /\ lastTimeRef = 0 /\ holdTime = 0
    /\ history = <<>>

\* The application as it starts: no frame, no layer, no text.
Init ==
    /\ timelineImages = <<>>
    /\ currentImageIndex = 0
    /\ layers = <<>>
    /\ textElements = <<>>
    /\ camera = defaultCamera
    /\ progress = 0
    /\ settings = defaultSettings
    /\ processedItems = <<>>
    /\ Mounted(1)
    /\ NoHarness
    /\ Stopped

\* Editing a frame: images added, reordered and removed, text toggled, the
\* three processing settings changed, the playhead moved.
Reorders(ls) ==
    {q \in LayerSeqs : {q[i] : i \in 1..Len(q)} \subseteq {ls[i] : i \in 1..Len(ls)}}
ProcessingSettings ==
    {[settings EXCEPT !.drawingOrder = o] : o \in {"top-to-bottom", "smart-flow"}}
      \cup {[settings EXCEPT !.edgeSensitivity = e] : e \in Sensitivities}
      \cup {[settings EXCEPT !.strokeSmoothness = 80 - settings.strokeSmoothness]}
SeekPoints == {0, PD \div 2}

Next ==
    \/ \E id \in LayerIds :
          /\ Len(layers) < MaxLayers
          /\ \A i \in 1..Len(layers) : layers[i] # id
          /\ addImagesToTimeline(<<id>>)
    \/ \E newLayers \in Reorders(layers) : handleLayersUpdate(newLayers)
    \/ \E ts \in {<<>>, <<"T">>} : setTextElements(ts)
    \/ \E st \in ProcessingSettings : setSettings(st, 0)
    \/ \E p \in SeekPoints : onSeek(currentImageIndex, p)
    \/ processItemsBatched
    \/ processItemsBegin
    \/ processItemsEnd
    \/ Draw

Spec == Init /\ [][Next]_vars

\* Bursts of edits of one frame: layers A and B added, reordered and removed,
\* the text toggled, the drawing order chosen; the timer fires, the
\* processItems call finishes and the scheduled draw effect runs whenever they
\* stay possible.
BurstLayers == {"A", "B"}

NextBurst ==
    \/ \E id \in BurstLayers :
          /\ \A i \in 1..Len(layers) : layers[i] # id
          /\ addImagesToTimeline(<<id>>)
    \/ \E newLayers \in Reorders(layers) : handleLayersUpdate(newLayers)
    \/ \E ts \in {<<>>, <<"T">>} : setTextElements(ts)
    \/ \E o \in DrawingOrders : setSettings([settings EXCEPT !.drawingOrder = o], 0)
    \/ processItemsBatched
    \/ processItemsBegin
    \/ processItemsEnd
    \/ Draw

\* Weak fairness of the rest of a processItems call and of the scheduled draw
\* effect, with the guards that enable them written out: a call that started
\* finishes, a scheduled draw runs.
CallFinishes == []<>~(running # <<>> /\ ~pendingDraw) \/ []<><<running' = <<>>>>_vars
DrawRuns == []<>~pendingDraw \/ []<><<~pendingDraw'>>_vars

\* A pending timer fires: the callback has the guard of processItemsBegin in
\* either rendering of its state updates.
SpecBurst ==
    /\ Init /\ [][NextBurst]_vars
    /\ WF_vars(processItemsBegin)
    /\ CallFinishes
    /\ DrawRuns

\* Playing back and scrubbing two frames: a processed scene on the second
\* frame, after a frame holding one layer.
DrawScenes ==
    { [layers |-> <<"A">>, textElements |-> <<>>, drawingOrder |-> "top-to-bottom",
       camera |-> defaultCamera],
      [layers |-> <<"A", "B">>, textElements |-> <<>>, drawingOrder |-> "top-to-bottom",
       camera |-> [x |-> 100, y |-> 50, zoom |-> 150]],
      [layers |-> <<"C", "A">>, textElements |-> <<"T">>, drawingOrder |-> "smart-flow",
       camera |-> defaultCamera],
      [layers |-> <<"X", "A">>, textElements |-> <<>>, drawingOrder |-> "top-to-bottom",
       camera |-> defaultCamera] }

ProgressVals ==
    {-((3 * PD) \div 2), -PD, -(PD \div 2), -(PD \div 4), 0, PD \div 4,
     PD \div 2 + PD \div 60, (2 * PD) \div 3,
     PD, PD + PD \div 20, (4 * PD) \div 3, (3 * PD) \div 2, 2 * PD, (5 * PD) \div 2}

\* The playhead moves from one sample to the next one or to the one before.
Adjacent(p) ==
    {q \in ProgressVals :
        q # p /\ ~ \E m \in ProgressVals : (p < m /\ m < q) \/ (q < m /\ m < p)}

Transitions ==
    { defaultTransition,
      [type |-> "pan", direction |-> "right", duration |-> PD],
      [type |-> "fade", direction |-> "right", duration |-> PD],
      [type |-> "zoom", direction |-> "right", duration |-> PD],
      [type |-> "paper-slide", direction |-> "left", duration |-> PD] }

InitDraw ==
    \E sc \in DrawScenes, g \in Grains :
        /\ timelineImages = <<Frame(<<"B">>, defaultTransition, defaultCamera),
                              Frame(sc.layers, defaultTransition, sc.camera)>>
        /\ currentImageIndex = 1
        /\ layers = sc.layers
        /\ textElements = sc.textElements
        /\ camera = sc.camera
        /\ progress = 0
        /\ settings = [defaultSettings EXCEPT !.drawingOrder = sc.drawingOrder]
        /\ processedItems = processItems(layers, textElements, settings)
        /\ Mounted(g)
        /\ NoHarness
        /\ Stopped

PaperSettings ==
    {[settings EXCEPT !.showHand = ~settings.showHand]}
      \cup {[settings EXCEPT !.paperTexture = x] : x \in {"none", "grainy"}}

NextDraw ==
    \/ \E p \in Adjacent(progress) : onSeek(1, p)
    \/ onSeek(0, 0)
    \/ \E tr \in Transitions : currentImageIndex = 1 /\ handleTransitionUpdate(tr)
    \/ \E st \in PaperSettings, g \in Grains : setSettings(st, g)
    \/ handleLayersUpdate(layers)
    \/ HandImageLoaded
    \/ processItemsBatched
    \/ processItemsBegin
    \/ processItemsEnd
    \/ Draw

SpecDraw == InitDraw /\ [][NextDraw]_vars

\* Playing two frames back: the first of either duration, the second entered
\* by any transition.
Durations == {3, 5}
Deltas == {TicksPerSecond \div 4, TicksPerSecond \div 2}
Speeds == {1, 2}

InitPlay ==
    \E dur \in Durations, tr \in Transitions :
        /\ timelineImages = <<[Frame(<<"A">>, defaultTransition, defaultCamera)
                                  EXCEPT !.duration = dur],
                              Frame(<<"B">>, tr, [x |-> 100, y |-> 50, zoom |-> 150])>>
        /\ currentImageIndex = 0
        /\ layers = <<"A">>
        /\ textElements = <<>>
        /\ camera = defaultCamera
        /\ progress = 0
        /\ settings = defaultSettings
        /\ processedItems = processItems(layers, textElements, settings)
        /\ Mounted(1)
        /\ NoHarness
        /\ Stopped

NextPlay ==
    \/ handlePlayPause
    \/ \E delta \in Deltas : animate(delta)
    \/ \E v \in Speeds : setSpeed(v)
    \/ processItemsBatched
    \/ processItemsBegin
    \/ processItemsEnd
    \/ Draw

SpecPlay == InitPlay /\ [][NextPlay]_vars

\* Uninterrupted playback of three frames from the start of the first: the
\* play control has just been used, animation frames keep arriving while the
\* loop is running, and nothing else is touched.
InitPlaying ==
    \E dur \in Durations, tr \in Transitions, v \in Speeds :
        /\ timelineImages = <<[Frame(<<"A">>, defaultTransition, defaultCamera)
                                  EXCEPT !.duration = dur],
                              Frame(<<"B">>, tr, [x |-> 100, y |-> 50, zoom |-> 150]),
                              [Frame(<<"A", "B">>, defaultTransition, defaultCamera)
                                  EXCEPT !.duration = 3]>>
        /\ currentImageIndex = 0
        /\ layers = <<"A">>
        /\ textElements = <<>>
        /\ camera = defaultCamera
        /\ progress = 0
        /\ settings = defaultSettings
        /\ processedItems = processItems(layers, textElements, settings)
        /\ Mounted(1)
        /\ NoHarness
        /\ isPlaying = TRUE /\ speed = v /\ lastTimeRef = 0 /\ holdTime = 0
        /\ history = <<>>

NextPlaying ==
    \/ \E delta \in Deltas : animate(delta)
    \/ processItemsBatched
    \/ processItemsBegin
    \/ processItemsEnd
    \/ Draw

\* requestAnimationFrame(animate) at the end of every animate call: the next
\* frame arrives.
FramesArrive == WF_vars(\E delta \in Deltas : animate(delta))

SpecPlaying ==
    /\ InitPlaying /\ [][NextPlaying]_vars
    /\ FramesArrive
    /\ CallFinishes
    /\ DrawRuns

\* Frames added, deleted and sought, an image added, snapshots taken and
\* restored, a project loaded and the timeline played, from the empty
\* application.  A render that threw leaves nothing to act on.
Projects ==
    { [timeline |-> <<>>, textElements |-> <<>>],
      [timeline |-> <<Frame(<<"A">>, defaultTransition, defaultCamera),
                      Frame(<<>>, defaultTransition, [x |-> 100, y |-> 50, zoom |-> 150])>>,
       textElements |-> <<>>] }
LongDeltas == {2 * TicksPerSecond}

NextFrames ==
    \/ Rendered /\ handleAddFrame
    \/ \E i \in 0..(MaxFrames - 1) : Rendered /\ handleDelete(i)
    \/ \E i \in 0..(MaxFrames - 1) : Rendered /\ onSeek(i, 0)
    \/ Rendered /\ Len(layers) = 0 /\ addImagesToTimeline(<<"A">>)
    \/ Rendered /\ takeSnapshot
    \/ \E k \in 1..Len(history) : Rendered /\ handleRestore(history[k])
    \/ \E data \in Projects : Rendered /\ handleLoadProject(data)
    \/ Rendered /\ holdTime <= MaxHold * TicksPerSecond /\ handlePlayPause
    \/ \E delta \in LongDeltas : Rendered /\ animate(delta)
    \/ Rendered /\ processItemsBatched
    \/ Rendered /\ processItemsBegin
    \/ Rendered /\ processItemsEnd
    \/ Rendered /\ Draw

SpecFrames == Init /\ [][NextFrames]_vars

\* Scrubbing the track of three clips, of 2 seconds (the minimum width), of 3
\* or 5 seconds and of 5 seconds: clicks every 10 pixels, up to past the end.
Clicks == {10 * k : k \in 0..48}

InitSeek ==
    \E dur \in Durations :
        /\ timelineImages = <<[Frame(<<"A">>, defaultTransition, defaultCamera)
                                  EXCEPT !.duration = 2],
                              [Frame(<<"B">>, defaultTransition, defaultCamera)
                                  EXCEPT !.duration = dur],
                              Frame(<<>>, defaultTransition, defaultCamera)>>
        /\ currentImageIndex = 0
        /\ layers = <<"A">>
        /\ textElements = <<>>
        /\ camera = defaultCamera
        /\ progress = 0
        /\ settings = defaultSettings
        /\ processedItems = processItems(layers, textElements, settings)
        /\ Mounted(1)
        /\ NoHarness
        /\ Stopped

NextSeek ==
    \/ \E clickX \in Clicks : handleSeek(clickX)
    \/ processItemsBatched
    \/ processItemsBegin
    \/ processItemsEnd
    \/ Draw

SpecSeek == InitSeek /\ [][NextSeek]_vars

\* The organizer on rasters of up to MaxRuns runs.
InitOrg ==
    /\ timelineImages = <<>>
    /\ currentImageIndex = 0
    /\ layers = <<>>
    /\ textElements = <<>>
    /\ camera = defaultCamera
    /\ progress = 0
    /\ settings = defaultSettings
    /\ processedItems = <<>>
    /\ Mounted(1)
    /\ image \in Images
    /\ traced = <<>>
    /\ organized = <<>>
    /\ gray = <<>>
    /\ extracted = <<>>
    /\ Stopped

NextOrg ==
    \/ \E s \in Sensitivities : Trace(s)
    \/ \E type \in {"image", "text"}, o \in DrawingOrders : Organize(type, o)

SpecOrg == InitOrg /\ [][NextOrg]_vars

\* The edge extractors on their own: one gray raster, its edge mask taken at
\* up to MaxExtractions sensitivities, by the canvas the application mounts
\* (edges) and by the alternate canvas (suppressed).
Block(x0, y0, w, h) == {Pt(x0 + i, y0 + j) : i \in 0..(w - 1), j \in 0..(h - 1)}
Shade(S, v) == [p \in S |-> v]
GrayRasters ==
    { Shade(Block(4, 4, 3, 3), 0),
      Shade(Block(4, 4, 3, 3), 240),
      Shade(VertRun(4, 3, 6), 170) @@ Shade(VertRun(5, 3, 6), 85) @@ Shade(Block(6, 3, 3, 6), 0),
      Shade(VertRun(4, 3, 6), 245) @@ Shade(VertRun(5, 3, 6), 235) @@ Shade(Block(6, 3, 3, 6), 225),
      Shade(DiagRun(4, 4, 5), 230),
      Shade({Pt(8 - i, 4 + i) : i \in 0..4}, 225),
      Shade({Pt(5, 5)}, 250),
      Shade(HorizRun(4, 5, 5), 235),
      Shade(VertRun(0, 0, 4), 0),
      Shade(Block(4, 4, 3, 3), 240) @@ Shade(Block(10, 4, 3, 3), 0) }

\* edgeSensitivity values over the slider's whole range, in hundredths.
SliderStops == {0, 25, 50, 80, 100}

Extract(s) ==
    /\ Len(extracted) < MaxExtractions
    /\ extracted' = Append(extracted,
                           [edgeSensitivity |-> s,
                            edges |-> edgeMask(magnitudes(gray), s),
                            suppressed |-> suppressedEdges(gray, s)])
    /\ UNCHANGED <<timelineImages, currentImageIndex, layers, textElements, camera,
                   progress, settings, processedItems, isProcessing,
                   prevCompositeCanvas, staticBackground, handImage, timeoutId,
                   running, pendingDraw, canvas, drawnWith, currentHandPosRef,
                   image, traced, organized, gray, Playback>>

InitEdge ==
    /\ timelineImages = <<>>
    /\ currentImageIndex = 0
    /\ layers = <<>>
    /\ textElements = <<>>
    /\ camera = defaultCamera
    /\ progress = 0
    /\ settings = defaultSettings
    /\ processedItems = <<>>
    /\ Mounted(1)
    /\ image = {}
    /\ traced = <<>>
    /\ organized = <<>>
    /\ gray \in GrayRasters
    /\ extracted = <<>>
    /\ Stopped

NextEdge == \E s \in SliderStops : Extract(s)

SpecEdge == InitEdge /\ [][NextEdge]_vars

-----------------------------------------------------------------------------
(* Properties of the organizer *)

TracedPaths == traced[1].paths
OrganizedPaths == organized[1].paths

\* C7: whatever the drawing order, the list the organizer hands on is a
\* permutation of the paths the tracer pushed: the same number of paths, each
\* pushed path exactly once and unchanged, each with as many points as the
\* pixel walk it was smoothed from; and the total the compositor computes for
\* the sketch fraction is the sum of the lengths of those walks.
PathsPreserved ==
    organized # <<>> =>
        /\ Len(OrganizedPaths) = Len(TracedPaths)
        /\ {OrganizedPaths[i].oid : i \in 1..Len(OrganizedPaths)} = 1..Len(TracedPaths)
        /\ \A i \in 1..Len(OrganizedPaths) :
              OrganizedPaths[i] = TracedPaths[OrganizedPaths[i].oid]
        /\ \A k \in 1..Len(TracedPaths) :
              Len(TracedPaths[k].points) = Len(traced[1].walks[k])
        /\ totalLen(OrganizedPaths)
              = SumSeq([k \in 1..Len(TracedPaths) |-> Len(traced[1].walks[k])])

\* A raster of three or more paths that smart-flow hands on in another order
\* than the tracer pushed them.
PathsReordered ==
    /\ organized # <<>>
    /\ organized[1].drawingOrder = "smart-flow"
    /\ Len(OrganizedPaths) >= 3
    /\ \E i \in 1..Len(OrganizedPaths) : OrganizedPaths[i].oid # i

\* The group of a traced path: the paths linked to it by a chain of
\* padded-box overlaps.
RECURSIVE Linked(_)
Linked(S) ==
    LET T == S \cup {j \in 1..Len(TracedPaths) :
                       \E i \in S : Near(getBounds(TracedPaths[i]), getBounds(TracedPaths[j]))}
    IN  IF T = S THEN S ELSE Linked(T)

\* center.y * 5 + center.x of group G is smaller than that of group K, the
\* center of a group being the mean of its paths' box centres.
GroupKey(G) ==
    LET ids == Ascending(G)
    IN  SumSeq([k \in 1..Len(ids) |->
                  5 * W * getBounds(TracedPaths[ids[k]]).cy2
                    + H * getBounds(TracedPaths[ids[k]]).cx2])
KeySmaller(G, K) == ProductLess(GroupKey(G), Cardinality(K), GroupKey(K), Cardinality(G))

PlaceOf(k) == CHOOSE i \in 1..Len(OrganizedPaths) : OrganizedPaths[i].oid = k

\* C8: under smart-flow, of two groups of paths, each linked by padded-box
\* overlaps and with no overlap between them, every path of the group whose
\* center has the smaller center.y * 5 + center.x comes out before every path
\* of the other group.
SmartFlowGroupOrder ==
    (organized # <<>> /\ organized[1].drawingOrder = "smart-flow") =>
        \A i, j \in 1..Len(TracedPaths) :
            (Linked({i}) # Linked({j}) /\ KeySmaller(Linked({i}), Linked({j})))
                => PlaceOf(i) < PlaceOf(j)

\* Two groups, one of them of two paths, where the group found first (it
\* holds the first traced path) has the larger key and so comes out last.
TwoGroupsSwapped ==
    /\ organized # <<>>
    /\ organized[1].drawingOrder = "smart-flow"
    /\ Len(TracedPaths) = 3
    /\ {Linked({i}) : i \in 1..Len(TracedPaths)} = {Linked({1}), Linked({2})}
    /\ Linked({1}) # Linked({2})
    /\ Cardinality(Linked({2})) >= 2
    /\ KeySmaller(Linked({2}), Linked({1}))
    /\ OrganizedPaths[Len(OrganizedPaths)].oid = 1

-----------------------------------------------------------------------------
(* Properties of the processing effect *)

\* A step that stores into processedItems: the store of [] for empty inputs,
\* or the end of a processItems call.
StoredNow ==
    \/ processedItems' # processedItems
    \/ running # <<>> /\ running' = <<>>
    \/ timeoutId # <<>> /\ timeoutId' = <<>> /\ running' = <<>>

\* C1: whatever the changes to layers, text elements, edgeSensitivity,
\* strokeSmoothness and drawingOrder, every value stored in processedItems is
\* the one computed from the inputs current at the moment of the store: a run
\* scheduled for earlier inputs never stores after a later change.
StaleRunNeverStored ==
    [][StoredNow => processedItems' = processItems(layers', textElements', settings')]_vars

\* Items stored for layer A at sensitivity 0.8 top-to-bottom, and a timer
\* pending for sensitivity 0.5 smart-flow: two changes since the store, so the
\* run scheduled by the first of them was superseded.
SupersededRun ==
    /\ layers = <<"A">> /\ textElements = <<>>
    /\ timeoutId # <<>>
    /\ timeoutId[1].edgeSensitivity = 50 /\ timeoutId[1].drawingOrder = "smart-flow"
    /\ processedItems =
          processItems(layers, textElements,
                       [edgeSensitivity |-> 80, drawingOrder |-> "top-to-bottom"])
    /\ processedItems #
          processItems(layers, textElements,
                       [edgeSensitivity |-> 50, drawingOrder |-> "top-to-bottom"])
    /\ processedItems #
          processItems(layers, textElements,
                       [edgeSensitivity |-> 80, drawingOrder |-> "smart-flow"])

\* Processing is in flight: the inputs changed and processedItems has not
\* been recomputed from them yet.
InFlight == timeoutId # <<>> \/ running # <<>>

DrawStep == pendingDraw /\ ~pendingDraw'

OnlyPlaceholder(cv) ==
    /\ \E i \in 1..Len(cv.ops) : cv.ops[i].op = "fillText"
    /\ \A i \in 1..Len(cv.ops) :
          \/ cv.ops[i].op = "fillText"
          \/ cv.ops[i].op \in {"drawImage", "fillRect"} /\ cv.ops[i].of.kind \in {"paper", "color"}

\* C2: whenever processing is in flight, a draw call paints only the
\* background and the 'Processing scene...' placeholder, and strokes, blits or
\* clip-reveals no item of the previous processedItems.
PlaceholderWhileInFlight ==
    [][(DrawStep /\ InFlight /\ processedItems # <<>>) => OnlyPlaceholder(canvas')]_vars

\* processedItems holds what the current inputs give.
Settled == timeoutId = <<>> /\ running = <<>>

FirstY(item) == item.paths[1].points[1].y

\* C10, as the specification states it: with top-to-bottom, of two image
\* layers' items the one whose first path starts at the smaller y is emitted
\* first, wherever the layers are in the layers array.
UpperLayerFirst ==
    (Settled /\ settings.drawingOrder = "top-to-bottom") =>
        \A i, j \in 1..Len(processedItems) :
            ( /\ processedItems[i].type = "image" /\ processedItems[j].type = "image"
              /\ Len(processedItems[i].paths) > 0 /\ Len(processedItems[j].paths) > 0
              /\ FirstY(processedItems[i]) < FirstY(processedItems[j]) )
            => i < j

\* C10, as the code has it: with top-to-bottom the items of the image layers
\* are emitted in the order of the layers array, whatever the y their first
\* paths start at; top-to-bottom orders the paths inside each item only.
ItemsInLayerOrder ==
    (Settled /\ settings.drawingOrder = "top-to-bottom") =>
        /\ [i \in 1..Len(processedItems) |-> processedItems[i].id] = layers \o textElements
        /\ \A i \in 1..Len(layers) :
              /\ processedItems[i].type = "image"
              /\ \A k \in 1..(Len(processedItems[i].paths) - 1) :
                    topKey(processedItems[i].paths[k]) <= topKey(processedItems[i].paths[k + 1])

\* Layer B before layer A in the layers array, A's first path above B's.
LowerLayerFirst ==
    /\ Settled /\ settings.drawingOrder = "top-to-bottom"
    /\ layers = <<"B", "A">>
    /\ Len(processedItems) >= 2
    /\ processedItems[1].id = "B" /\ processedItems[2].id = "A"
    /\ FirstY(processedItems[2]) < FirstY(processedItems[1])

-----------------------------------------------------------------------------
(* Properties of draw *)

\* C3, as the specification states it: a draw call mutates nothing, the
\* hand-position ref included.
DrawMutatesNothing ==
    [][DrawStep =>
         UNCHANGED <<processedItems, isProcessing, staticBackground, prevCompositeCanvas,
                     progress, currentImageIndex, currentHandPosRef>>]_vars

\* C3, as the code has it: a draw call leaves processedItems, isProcessing,
\* the cached background, the previous-frame composite, progress, the frame
\* index and every other state of the component and the application as they
\* were, except the hand-position ref: unless it paints the processing
\* placeholder, it writes there the position it reported through onHandMove,
\* a point or null.
DrawWritesOnlyHandRef ==
    [][DrawStep =>
         /\ UNCHANGED <<processedItems, isProcessing, staticBackground,
                        prevCompositeCanvas, progress, currentImageIndex,
                        timelineImages, layers, textElements, camera, settings,
                        handImage, timeoutId, running>>
         /\ isProcessing => UNCHANGED currentHandPosRef
         /\ ~isProcessing => /\ drawnWith'.hand.called
                             /\ currentHandPosRef' = drawnWith'.hand.pos]_vars

\* A draw past the start of an item's slice drew its strokes and moved the
\* hand-position ref to the pen tip.
HandRefMoved ==
    /\ ~pendingDraw
    /\ drawnWith.progress > 0
    /\ ~drawnWith.scope.isProcessing
    /\ drawnWith.hand.pos # <<>>
    /\ currentHandPosRef = drawnWith.hand.pos
    /\ \E i \in 1..Len(canvas.ops) : canvas.ops[i].op = "stroke"

\* The arguments of the draw about to run are those of the last draw.
SameArguments ==
    /\ progress = drawnWith.progress
    /\ camera = drawnWith.scope.camera
    /\ transition = drawnWith.scope.transition
    /\ processedItems = drawnWith.scope.processedItems
    /\ settings = drawnWith.scope.settings
    /\ prevCompositeCanvas = drawnWith.scope.prevCompositeCanvas

\* C4: a draw call given the progress, camera, transition, processedItems,
\* settings and previous-frame composite of the draw call before it paints
\* what that one painted, whatever happened in between (the hand image
\* loading, a processing run): nothing but these arguments is read.
SameArgumentsSameOutput == [][(DrawStep /\ SameArguments) => canvas' = canvas]_vars

\* The last draw went through the items.
DrewItems ==
    /\ ~drawnWith.scope.isProcessing
    /\ Len(drawnWith.scope.processedItems) > 0
    /\ drawnWith.progress >= 0

Blit(item) == Op("drawImage", item.colorCanvas, 0, 0, One, 5 * One, 0)
IsPaper(op) == op.op \in {"drawImage", "fillRect"} /\ op.of.kind \in {"paper", "color"}
OpsOf(kinds) == SelectSeq(canvas.ops, LAMBDA o : o.op \in kinds)
ItemBlits == SelectSeq(canvas.ops, LAMBDA o : o.op = "drawImage" /\ o.of.kind = "item")

\* C5: with any number of items, a draw at progress = 2.0 paints the
\* background and then the full colorCanvas of every item in item order, and
\* nothing else: no stroke, no clip, no hand; and it reports no hand.
FinalFrameIsComposite ==
    (DrewItems /\ drawnWith.progress = 2 * PD) =>
        LET items == drawnWith.scope.processedItems
        IN  /\ IsPaper(Head(canvas.ops))
            /\ Tail(canvas.ops) = [i \in 1..Len(items) |-> Blit(items[i])]
            /\ drawnWith.hand = Report(<<>>)

\* The final frame of three items drawn with the hand image loaded and shown.
FinalFrameDrawn ==
    /\ ~pendingDraw /\ DrewItems /\ drawnWith.progress = 2 * PD
    /\ Len(drawnWith.scope.processedItems) = 3
    /\ drawnWith.scope.handImage = "img" /\ drawnWith.scope.settings.showHand

\* The index (0-based) of the item whose slice starts at the drawn progress.
StartsSliceOf(k) ==
    /\ DrewItems
    /\ k < Len(drawnWith.scope.processedItems)
    /\ drawnWith.progress * Len(drawnWith.scope.processedItems) = 2 * PD * k

\* C6: a draw at the progress where item k's slice starts (progress 0 for
\* the first item) strokes no point, of item k or of any other, reveals no
\* color, and paints every item before k as its full colorCanvas.
SliceStartStrokesNothing ==
    \A k \in 0..(Len(drawnWith.scope.processedItems) - 1) :
        StartsSliceOf(k) =>
            /\ OpsOf({"stroke", "clipImage"}) = <<>>
            /\ ItemBlits = [i \in 1..k |-> Blit(drawnWith.scope.processedItems[i])]

\* The start of the slice of a later item that has paths: the pen tip is
\* reported at the first point of its first path.
LaterSliceStartDrawn ==
    /\ ~pendingDraw
    /\ \E k \in 1..2 :
          /\ StartsSliceOf(k)
          /\ Len(drawnWith.scope.processedItems[k + 1].paths) > 0
          /\ drawnWith.hand.pos # <<>>
          /\ drawnWith.hand.pos[1].kind = "tip"

PanRight == <<[type |-> "pan", direction |-> "right", duration |-> PD]>>

DrewPanRight ==
    /\ ~drawnWith.scope.isProcessing
    /\ drawnWith.progress < 0
    /\ drawnWith.scope.transition = PanRight
    /\ drawnWith.scope.prevCompositeCanvas # <<>>

\* C9: with a pan to the right, at progress = -0.5 the eased value is 0.5:
\* the previous composite is painted half a canvas width to the left and
\* the new background half a canvas width to the right; and at every
\* t = 1 + progress in [0, 1) the new background is one canvas width to the
\* right of the previous composite.
PanHalfway ==
    DrewPanRight =>
        LET n == Len(canvas.ops)
            old == canvas.ops[n - 1]
            new == canvas.ops[n]
        IN  /\ old.of = drawnWith.scope.prevCompositeCanvas[1]
            /\ IsPaper(new)
            /\ new.tx - old.tx = One /\ new.ty = 0 /\ old.ty = 0
            /\ drawnWith.progress = -(PD \div 2) =>
                  /\ 2 * ease(PD \div 2) = One
                  /\ 2 * old.tx = -One
                  /\ 2 * new.tx = One

PanHalfwayDrawn ==
    /\ ~pendingDraw /\ DrewPanRight
    /\ drawnWith.progress = -(PD \div 2)

-----------------------------------------------------------------------------
(* Properties of the edge extractors *)

\* C11: for one gray raster and two sensitivities s1 <= s2, the pixels marked
\* as edges at s1 are among those marked at s2, in the plain-threshold mask
\* and in the mask after non-maximum suppression alike.
MaskGrowsWithSensitivity ==
    \A i, j \in DOMAIN extracted :
        extracted[i].edgeSensitivity <= extracted[j].edgeSensitivity
            => /\ extracted[i].edges \subseteq extracted[j].edges
               /\ extracted[i].suppressed \subseteq extracted[j].suppressed

\* A raised sensitivity that added edge pixels to masks that already had some.
MaskGrew ==
    \E i, j \in DOMAIN extracted :
        /\ extracted[i].edgeSensitivity < extracted[j].edgeSensitivity
        /\ extracted[i].edges # {}
        /\ extracted[i].suppressed # {}
        /\ extracted[i].edges # extracted[j].edges
        /\ extracted[i].suppressed # extracted[j].suppressed

\* C20: in the canvas the application mounts, every pixel marked as an edge
\* has a magnitude not below the threshold and not below the magnitude of
\* either neighbour along its quantized gradient direction.
EdgesAreLocalMaxima ==
    \A i \in DOMAIN extracted :
        \A p \in extracted[i].edges :
            /\ ~(magnitudeSq(gray, p)
                   < threshold(extracted[i].edgeSensitivity) * threshold(extracted[i].edgeSensitivity))
            /\ localMaximum(gray, p)

-----------------------------------------------------------------------------
(* Properties of draw, continued *)

EmptyItemShownAtOnce ==
    \A k \in 0..(Len(drawnWith.scope.processedItems) - 1) :
        LET item == drawnWith.scope.processedItems[k + 1]
            n == Len(drawnWith.scope.processedItems)
        IN  (/\ DrewItems
             /\ Len(item.paths) = 0
             /\ drawnWith.progress * n >= 2 * PD * k
             /\ drawnWith.progress * n < 2 * PD * (k + 1))
                => /\ \E j \in DOMAIN canvas.ops : canvas.ops[j] = Blit(item)
                   /\ \A j \in DOMAIN canvas.ops :
                         canvas.ops[j].op = "stroke" => canvas.ops[j].of.ids # <<item.id>>

-----------------------------------------------------------------------------
(* Properties of processing, continued *)

\* C14: a layer whose image fails to rasterize gets no ProcessedItem; the
\* other layers and the text elements are processed as if it were absent,
\* and the run ends with isProcessing false.
FailedLayerSkipped ==
    (Settled /\ \E i \in DOMAIN layers : layers[i] \in BrokenIds)
        => /\ ~isProcessing
           /\ processedItems
                = processItems(SelectSeq(layers, LAMBDA l : l \notin BrokenIds),
                               textElements, settings)

-----------------------------------------------------------------------------
(* Properties of draw and of the background cache *)

HandDrawn(cv) == \E i \in DOMAIN cv.ops : cv.ops[i].of.kind = "hand"

\* C16: every draw call with progress < 0, whatever the transition and
\* whether or not processing is under way, draws no hand and reports the
\* hand position as absent through onHandMove(null, null).
HandReportedAbsentBeforeSketch ==
    [][(DrawStep /\ progress < 0)
          => ~HandDrawn(canvas') /\ drawnWith'.hand = Report(<<>>)]_vars

\* C16, as the code has it: every draw call with progress < 0 draws no hand
\* and leaves the hand-position ref null; it reports the position as absent
\* through onHandMove(null, null) unless it paints the processing
\* placeholder, in which case it reports nothing.
HandAbsentBeforeSketch ==
    [][(DrawStep /\ progress < 0)
          => /\ ~HandDrawn(canvas')
             /\ currentHandPosRef' = <<>>
             /\ drawnWith'.hand = IF isProcessing THEN NoReport ELSE Report(<<>>)]_vars

\* The placeholder painted at a negative progress, after a draw that had
\* reported a pen tip and under a transition that is not a cut.
PlaceholderBeforeSketch ==
    /\ ~pendingDraw
    /\ drawnWith.scope.isProcessing
    /\ drawnWith.progress < 0
    /\ drawnWith.scope.transition # <<>>
    /\ drawnWith.scope.transition[1].type # "cut"
    /\ drawnWith.scope.handImage = "img" /\ drawnWith.scope.settings.showHand
    /\ currentHandPosRef = <<>>

-----------------------------------------------------------------------------
(* Properties of playback *)

\* The animation frame that moves playback to the next frame, and the one
\* that stops it at the end of the last frame.
Advances == isPlaying /\ isPlaying' /\ currentImageIndex' = currentImageIndex + 1
Stops ==
    /\ isPlaying /\ ~isPlaying'
    /\ currentImageIndex = Len(timelineImages) - 1
    /\ currentImageIndex' = currentImageIndex
    /\ progress' = MAX_PROGRESS

\* C15: playback leaves a frame, for the next one or to stop, only once
\* PAUSE_DURATION seconds of frame delta have accumulated since its progress
\* reached 2.0, and it stays no longer: whatever the speed and the frame's
\* duration.
PauseLastsPauseDuration ==
    [][/\ (Advances \/ Stops) => holdTime' >= PAUSE_DURATION * TicksPerSecond
       /\ (isPlaying' /\ progress' >= MAX_PROGRESS)
             => holdTime' < PAUSE_DURATION * TicksPerSecond]_vars

\* C17: when playback advances to the next frame, progress starts at -1 if
\* that frame's transition is not a cut, and at 0 if it is a cut.
TransitionEnteredUnlessCut ==
    [][Advances =>
         progress' = IF timelineImages[currentImageIndex' + 1].transition.type # "cut"
                     THEN -PD ELSE 0]_vars

\* C18: pausing leaves progress and currentImageIndex as they were when the
\* control was used, and nothing changes them while playback is paused.
PauseStep == isPlaying /\ ~isPlaying' /\ ~Stops
PauseKeepsPosition ==
    [][/\ PauseStep => UNCHANGED <<progress, currentImageIndex>>
       /\ (~isPlaying /\ ~isPlaying') => UNCHANGED <<progress, currentImageIndex>>]_vars

\* C29: during uninterrupted playback the global time the audio is
\* synchronized to never decreases from one animation frame to the next:
\* while progress rises, through the hold at the end of a frame, on the
\* advance to the next frame and through a transition with negative progress.
GlobalTimeNeverDecreases ==
    [][(isPlaying /\ isPlaying') => globalTime' >= globalTime]_vars

\* C27: with playback running and nothing else touched, the frames are
\* visited in index order, none skipped, and playback ends stopped on the
\* last frame with progress = 2.0.
PlaybackEndsOnLastFrame ==
    /\ [][currentImageIndex' # currentImageIndex
            => currentImageIndex' = currentImageIndex + 1]_vars
    /\ <>[](/\ ~isPlaying
            /\ currentImageIndex = Len(timelineImages) - 1
            /\ progress = MAX_PROGRESS)

\* Playback has run through the three frames and stopped on the third.
PlayedToTheEnd ==
    /\ ~isPlaying /\ lastTimeRef = 1
    /\ Len(timelineImages) = 3 /\ currentImageIndex = 2
    /\ progress = MAX_PROGRESS

\* C28: whatever frames are added, deleted and sought, images added,
\* snapshots restored, projects loaded and however far playback advances,
\* while the timeline has a frame currentImageIndex is the index of one of
\* its frames.
IndexOfAFrame ==
    Len(timelineImages) > 0 =>
        (0 <= currentImageIndex /\ currentImageIndex < Len(timelineImages))

\* C30: after a seek on the track to frame i at the fraction f of its clip
\* (progress = 2f), the track, given the progress the application passes to
\* it, shows the time start(i) + f * duration(i) and has its playhead at the
\* x that was clicked.
SeekAndPlayheadInverse ==
    [][\A clickX \in Clicks :
          (clickX <= prevWidths(clipMeta(timelineImages), Len(timelineImages))
             /\ handleSeek(clickX)) =>
              LET prop == progressProp(progress')
                  clip == clipMeta(timelineImages')[currentImageIndex' + 1]
              IN  /\ currentGlobalTime(timelineImages', currentImageIndex', prop)
                        = clip.startTime * MAX_PROGRESS * MAX_PROGRESS
                             + clip.duration * progress' * MAX_PROGRESS
                  /\ playheadX(timelineImages', currentImageIndex', prop)
                        = clickX * MAX_PROGRESS * MAX_PROGRESS]_vars

-----------------------------------------------------------------------------
(* Properties of the debounce *)

\* A change: a step that changes an input of the processing effect, or that
\* arms the timer (a layer replaced by one that traces the same).
InputsChanged ==
    \/ Closure(layers', textElements', settings') # Closure(layers, textElements, settings)
    \/ settings'.strokeSmoothness # settings.strokeSmoothness
    \/ timeoutId' # <<>> /\ timeoutId' # timeoutId

\* The pending timer fires: a processItems call starts.
RunStarts == timeoutId # <<>> /\ timeoutId' = <<>> /\ ~InputsChanged

\* No timer pending, no call under way: processedItems holds the result of
\* the latest inputs and isProcessing is false.
UpToDate ==
    (timeoutId' = <<>> /\ running' = <<>>)
       => /\ processedItems' = processItems(layers', textElements', settings')
          /\ ~isProcessing'

\* C21, as the specification states it: every change of a burst leaves one
\* timer pending, armed by that change, so that the burst starts exactly one
\* run, for the inputs of the last change; and if no further change arrives,
\* processedItems ends as the result of the latest inputs with isProcessing
\* false.
BurstStartsOneRun ==
    /\ [][InputsChanged => timeoutId' = <<Closure(layers', textElements', settings')>>]_vars
    /\ [][RunStarts => timeoutId[1] = Closure(layers, textElements, settings)]_vars
    /\ [][UpToDate]_vars
    /\ (<>[][~InputsChanged]_vars) => <>[](timeoutId = <<>> /\ running = <<>>)

\* C21, amended: the same, except that a change leaving no layer and no text
\* element arms no timer and starts no run: it clears the pending timer and
\* stores [] at once.
BurstStartsAtMostOneRun ==
    /\ [][InputsChanged =>
            IF Len(layers') = 0 /\ Len(textElements') = 0
            THEN timeoutId' = <<>> /\ processedItems' = <<>>
            ELSE timeoutId' = <<Closure(layers', textElements', settings')>>]_vars
    /\ [][RunStarts => timeoutId[1] = Closure(layers, textElements, settings)]_vars
    /\ [][UpToDate]_vars
    /\ (<>[][~InputsChanged]_vars) => <>[](timeoutId = <<>> /\ running = <<>>)

\* Two changes (layer B added, the text toggled on) since the items of layer A
\* alone were stored, and the timer of the second pending.
BurstPending ==
    /\ layers = <<"A", "B">> /\ textElements = <<"T">>
    /\ timeoutId = <<Closure(layers, textElements, settings)>>
    /\ processedItems = processItems(<<"A">>, <<>>, settings)

-----------------------------------------------------------------------------
(* Properties of the item slices *)

\* The index (0-based) of the item whose slice holds the drawn progress.
ActiveAt(k) ==
    /\ DrewItems
    /\ k < Len(drawnWith.scope.processedItems)
    /\ drawnWith.progress * Len(drawnWith.scope.processedItems) >= 2 * PD * k
    /\ drawnWith.progress * Len(drawnWith.scope.processedItems) < 2 * PD * (k + 1)

\* C22: at every progress in [0, 2) exactly one item k is active; the items
\* before k are painted as their full colorCanvas and no other item is, every
\* stroke and every clipped reveal is of item k, and the hand reported is the
\* one item k gives when drawn alone in its slice.
OneActiveItem ==
    (DrewItems /\ drawnWith.progress < 2 * PD) =>
        LET items == drawnWith.scope.processedItems
            n == Len(items)
        IN  /\ Cardinality({k \in 0..(n - 1) : ActiveAt(k)}) = 1
            /\ \A k \in 0..(n - 1) :
                  ActiveAt(k) =>
                    /\ ItemBlits = [i \in 1..k |-> Blit(items[i])]
                    /\ \A j \in DOMAIN canvas.ops :
                          /\ canvas.ops[j].op = "stroke"
                                => canvas.ops[j].of.ids = <<items[k + 1].id>>
                          /\ canvas.ops[j].op = "clipImage"
                                => canvas.ops[j].of = items[k + 1].colorCanvas
                    /\ drawnWith.hand =
                          Report(IF drawnWith.scope.settings.showHand
                                 THEN drawItem(drawnWith.scope, drawnWith.progress,
                                               items[k + 1], k, n,
                                               [ops |-> <<>>, hand |-> <<>>]).hand
                                 ELSE <<>>)

\* The second of three items being stroked, after the blit of the first.
SecondOfThreeActive ==
    /\ ~pendingDraw /\ ActiveAt(1)
    /\ Len(drawnWith.scope.processedItems) = 3
    /\ Len(ItemBlits) = 1
    /\ \E j \in DOMAIN canvas.ops : canvas.ops[j].op = "stroke"
    /\ drawnWith.hand.pos # <<>>

-----------------------------------------------------------------------------
(* Properties of the organizer, continued *)

\* C26: the paths of a text item are in the order the same drawing order
\* gives an image layer with the same traced paths; under top-to-bottom they
\* are ascending by first_point.y + 0.05 * first_point.x.
TextOrganizedAsImage ==
    (organized # <<>> /\ organized[1].type = "text") =>
        /\ OrganizedPaths = organizeLayer(organized[1].drawingOrder, TracedPaths)
        /\ organized[1].drawingOrder = "top-to-bottom" =>
              \A i, j \in 1..Len(OrganizedPaths) :
                  i < j => topKey(OrganizedPaths[i]) <= topKey(OrganizedPaths[j])

-----------------------------------------------------------------------------
(* Properties of processing: the order of the items *)

\* The paths of an item are the paths traced from its own raster, each once.
OwnPaths(item) ==
    LET paths == analysed[item.id][settings.edgeSensitivity]
    IN  /\ Len(item.paths) = Len(paths)
        /\ \A k \in 1..Len(paths) : \E m \in 1..Len(item.paths) : item.paths[m] = paths[k]

\* C25: whatever the drawing order, processedItems holds one item per image
\* layer, in the order of the layers array, then one item per text element,
\* in the order of the textElements array; every item holds the paths of its
\* own raster, in some order.
ItemsFollowArrays ==
    Settled =>
        /\ Len(processedItems) = Len(layers) + Len(textElements)
        /\ \A i \in 1..Len(layers) :
              /\ processedItems[i].id = layers[i]
              /\ processedItems[i].type = "image"
              /\ OwnPaths(processedItems[i])
        /\ \A j \in 1..Len(textElements) :
              /\ processedItems[Len(layers) + j].id = textElements[j]
              /\ processedItems[Len(layers) + j].type = "text"
              /\ OwnPaths(processedItems[Len(layers) + j])

\* Layers B and A and the text processed under a drawing order that hands
\* the paths of one of them on in another order than they were traced in.
ThreeItemsReorderedInside ==
    /\ Settled /\ ~pendingDraw
    /\ layers = <<"B", "A">> /\ textElements = <<"T">>
    /\ Len(processedItems) = 3
    /\ \E i \in 1..3 :
          processedItems[i].paths # analysed[processedItems[i].id][settings.edgeSensitivity]

-----------------------------------------------------------------------------
(* Properties of the sketch *)

\* The points of the paths of an item, in the order of the paths.
PointsOf(item) == Flatten([i \in 1..Len(item.paths) |-> item.paths[i].points])

\* The points one stroke operation goes through: the first len points of its
\* path.
StrokedBy(item, op) ==
    LET path == CHOOSE q \in {item.paths[i] : i \in 1..Len(item.paths)} : q.oid = op.of.n
    IN  SubSeq(path.points, 1, op.len)

\* The points stroked by the walk through the paths of item k (0-based) of n
\* at progress p.
SketchAt(item, k, n, p) ==
    LET localProgress == p * n - 2 * PD * k
        sk == strokeLoop(item, 1, 0, <<>>, <<>>,
                         totalLen(item.paths) * Min(Max(localProgress, 0), PD), localProgress)
    IN  Flatten([i \in 1..Len(sk.ops) |-> StrokedBy(item, sk.ops[i])])

Prefix(a, b) == Len(a) <= Len(b) /\ a = SubSeq(b, 1, Len(a))

\* C23: while the active item is sketched, the points stroked are the first
\* floor(totalPoints * s) points of its paths taken in the order of the item,
\* s being its local sketch fraction, and what is stroked at a smaller progress
\* of its slice is a prefix of what is stroked at a larger one; from s = 1 on
\* every path is stroked whole, in the order of the item.
SketchIsPrefix ==
    \A k \in 0..(Len(drawnWith.scope.processedItems) - 1) :
        LET items == drawnWith.scope.processedItems
            n == Len(items)
            item == items[k + 1]
            localProgress == drawnWith.progress * n - 2 * PD * k
            strokes == SelectSeq(canvas.ops, LAMBDA o : o.op = "stroke")
            stroked == Flatten([i \in 1..Len(strokes) |-> StrokedBy(item, strokes[i])])
        IN  /\ (ActiveAt(k) /\ localProgress < PD) =>
                  /\ stroked = SubSeq(PointsOf(item), 1,
                                      (Len(PointsOf(item)) * localProgress) \div PD)
                  /\ \A q \in ProgressVals :
                        (q >= drawnWith.progress /\ q * n <= 2 * PD * k + PD)
                           => Prefix(stroked, SketchAt(item, k, n, q))
            /\ (ActiveAt(k) /\ localProgress >= PD) =>
                  SubSeq(strokes, 1, Len(item.paths))
                     = [i \in 1..Len(item.paths) |->
                          strokeOp(item, item.paths[i], Len(item.paths[i].points))]

\* A sketch stopped inside the second path of an item: the first path whole,
\* then part of the second.
StoppedMidPath ==
    /\ ~pendingDraw
    /\ \E k \in 0..(Len(drawnWith.scope.processedItems) - 1) :
          /\ ActiveAt(k)
          /\ drawnWith.progress * Len(drawnWith.scope.processedItems) < 2 * PD * k + PD
    /\ LET strokes == SelectSeq(canvas.ops, LAMBDA o : o.op = "stroke")
       IN  /\ Len(strokes) = 2
           /\ \E i \in DOMAIN drawnWith.scope.processedItems :
                 LET item == drawnWith.scope.processedItems[i]
                 IN  /\ Len(item.paths) >= 2
                     /\ strokes[1] = strokeOp(item, item.paths[1], Len(item.paths[1].points))
                     /\ strokes[2].of = PathRef(item, item.paths[2])
                     /\ strokes[2].len < Len(item.paths[2].points)

-----------------------------------------------------------------------------
(* Properties of the pause after the sketch *)

\* The pause after the sketch, as draw paints it for the items listed: every
\* path stroked whole, in order, under the line style.
OutlineOf(c, items) ==
    Flatten([i \in 1..Len(items) |->
               <<styleOp(c.settings)>>
                 \o [m \in 1..Len(items[i].paths) |->
                       strokeOp(items[i], items[i].paths[m], Len(items[i].paths[m].points))]
                 \o [m \in 1..Len(items[i].paths) |->
                       strokeOp(items[i], items[i].paths[m], Len(items[i].paths[m].points))]])

\* C24, as the specification states it: at every progress strictly between 1
\* and 1.1, whatever the number of items, every path of every item is stroked
\* whole, no colorCanvas is painted or clip-revealed, and no hand is reported.
PauseAfterSketch ==
    (DrewItems /\ drawnWith.progress > PD /\ 10 * drawnWith.progress < 11 * PD) =>
        /\ \A i \in DOMAIN drawnWith.scope.processedItems :
              LET item == drawnWith.scope.processedItems[i]
              IN  \A m \in 1..Len(item.paths) :
                      \E j \in DOMAIN canvas.ops :
                          canvas.ops[j] = strokeOp(item, item.paths[m],
                                                   Len(item.paths[m].points))
        /\ ItemBlits = <<>>
        /\ OpsOf({"clipImage"}) = <<>>
        /\ drawnWith.hand = Report(<<>>)

\* C24, amended: the pause is the active item's.  Whenever the local progress
\* of the active item k is strictly between 1 and 1.1 (with one item: the
\* progress itself), every path of item k is stroked whole, its colorCanvas is
\* neither painted nor clip-revealed, and no hand is reported; the items
\* before k are painted as their full colorCanvas and the items after k are
\* not drawn.
PauseOfActiveItem ==
    \A k \in 0..(Len(drawnWith.scope.processedItems) - 1) :
        LET items == drawnWith.scope.processedItems
            localProgress == drawnWith.progress * Len(items) - 2 * PD * k
        IN  (ActiveAt(k) /\ localProgress > PD /\ 10 * localProgress < 11 * PD) =>
               /\ Tail(canvas.ops) = [i \in 1..k |-> Blit(items[i])]
                                        \o OutlineOf(drawnWith.scope, <<items[k + 1]>>)
               /\ drawnWith.hand = Report(<<>>)

\* The pause of item k of two.
PausedOnItem(k) ==
    /\ ~pendingDraw /\ ActiveAt(k)
    /\ Len(drawnWith.scope.processedItems) = 2
    /\ Len(drawnWith.scope.processedItems[k + 1].paths) > 0
    /\ 2 * drawnWith.progress - 2 * PD * k > PD
    /\ 10 * (2 * drawnWith.progress - 2 * PD * k) < 11 * PD

\* The pause of the first of two items, well before progress 1.
PausedOnFirstOfTwo == PausedOnItem(0)
====
